---------------------------- MODULE Spec2Model ----------------------------
(***************************************************************************)
(* Auth Bridge (kladnasoft/auth-bridge): the encrypted, versioned entity   *)
(* store over a shared Redis backend, the per-process version-guarded      *)
(* cache, the trust graph of services, workspaces and links, and the RSA   *)
(* key ring with link-gated token issuance.                                *)
(*                                                                         *)
(* Execution model.  Several worker processes share one backend.  Inside a *)
(* process the request handlers are asyncio coroutines: the code between   *)
(* two awaits runs without interruption, and every backend round trip is   *)
(* a suspension point.  A round trip is two steps here: the backend        *)
(* executes the command (labels ending in _call), and later the coroutine  *)
(* is resumed with the reply (labels ending in _ret).  Labels in           *)
(* SyncLabels are places in the middle of synchronous code (a return from  *)
(* reload_*_if_needed into its caller): while a handler is there no other  *)
(* handler of the same process runs.                                       *)
(***************************************************************************)
EXTENDS Integers, Sequences, FiniteSets, TLC

\* ------------------------------------------------------------------ bounds
\* Number of requests the clients send in a run.
MaxReq == 3
\* Number of minutes the clock advances in a run.
MaxNow == 1

\* ------------------------------------------------------------ the universe
Procs == {"p1", "p2"}
Handlers == {"h1", "h2", "h3"}
ProcOf(h) == IF h = "h3" THEN "p2" ELSE "p1"

Types == {"service", "workspace"}
Services == {"A", "B", "C"}
Workspaces == {"W1", "W2"}
Ids(t) == IF t = "service" THEN Services ELSE Workspaces
NoId == "-"

\* A version is an opaque token; the empty string of the code is NoVer.
NoVer == 0
\* An API key: <<kind, n>>.
NoKey == <<"none", 0>>
AUTHBRIDGE_API_KEYS == {<<"admin", 1>>}
\* A dict of the code is a function from its keys; {} and None are NoDict.
NoDict == <<>>
Update(d, e) == [k \in (DOMAIN d) \cup (DOMAIN e) |-> IF k \in DOMAIN e THEN e[k] ELSE d[k]]

\* ServiceLink: identity is the pair (issuer_id, audience_id).
ServiceLink(i, a, c) == [issuer_id |-> i, audience_id |-> a, context |-> c]
NoLink == ServiceLink(NoId, NoId, NoDict)
LinkEqAllFields(l, m) == l = m
LinkEq(l, m) == l.issuer_id = m.issuer_id /\ l.audience_id = m.audience_id
\* `link in list`, list.remove(link): Python uses __eq__.
LinkIn(l, s) == \E i \in 1..Len(s) : LinkEq(s[i], l)
FirstIdx(l, s) == CHOOSE i \in 1..Len(s) : LinkEq(s[i], l) /\ \A j \in 1..(i - 1) : ~LinkEq(s[j], l)
ListRemove(l, s) == LET i == FirstIdx(l, s) IN [j \in 1..(Len(s) - 1) |-> IF j < i THEN s[j] ELSE s[j + 1]]

\* Key ids: uuid4 strings, compared as strings by sorted().
Kids == {"k1", "k2", "k3"}
NoKid == "-"
KidRank(k) == CASE k = "k1" -> 1 [] k = "k2" -> 2 [] k = "k3" -> 3 [] OTHER -> 0
\* sorted(RSA_KEYS.keys())[-1]
LastSorted(S) == CHOOSE k \in S : \A j \in S : KidRank(j) <= KidRank(k)
\* generate_rsa_keypair: the pair that belongs to a kid.
generate_rsa_keypair(k) == <<<<"pub", k>>, <<"prv", k>>>>

\* A JWT: header kid, the private key it was signed with, and its claims.
Token(k, prv, p) == [kid |-> k, sig |-> prv, payload |-> p]
NoToken == Token(NoKid, <<"prv", NoKid>>, NoDict)

\* AuthBridgeEntity / ServiceEntity / WorkspaceEntity (the fields the store acts on).
Entity(v, k, i, c, l) == [version |-> v, api_key |-> k, info |-> i, content |-> c, services |-> l]
Absent == Entity(NoVer, NoKey, NoDict, NoDict, <<>>)

\* --------------------------------------------------------------- variables
VARIABLES
    redisUp,      \* the backend answers
    data,         \* data[t][id]: the blob under {t}:{id}:data
    verKey,       \* verKey[t][id]: the value under {t}:{id}:version
    sysVer,       \* sysVer[t]: the value under system:{t}:version
    cache,        \* cache[p][t][id]: caches.services / caches.workspaces of process p
    cacheVer,     \* cacheVer[p][t]: caches.service_sys_ver / workspace_sys_ver
    lock,         \* lock[p][t]: holder of caches._lock_services / _lock_workspaces
    hs,           \* hs[h]: the coroutine of handler h
    nextVer,      \* the next token new_system_token returns
    reqs,         \* number of requests received so far
    rsaBlob,      \* the value under rsa:keys
    RSA_KEYS,     \* RSA_KEYS[p]: the kids of the in-memory ring of process p
    CURRENT_KID,  \* CURRENT_KID[p]
    usedKids,     \* the kids uuid4 has produced so far
    lastRot,      \* lastRot[p]: the kid the latest rotate_rsa_key of p returned
    now,          \* the clock, in minutes
    minted,       \* the tokens issued so far
    rl,           \* rl[k]: the counter under rl:{bucket}:{key}:{window} and its expiry
    half,         \* the clock is in the second half of minute `now`
    rlog,         \* rlog[k, hf]: the calls stamped in half hf of window k that the limiter let pass
    commits,      \* the writes the backend has executed (kept for the properties)
    events,       \* the change events the channel has accepted
    auditLog,     \* the entries of the audit stream
    tried,        \* the publish and audit calls made so far (kept for the properties)
    subs,         \* the processes subscribed to the channel
    inbox         \* inbox[p]: messages the channel holds for the listener of p

vars == <<redisUp, data, verKey, sysVer, cache, cacheVer, lock, hs, nextVer, reqs,
          rsaBlob, RSA_KEYS, CURRENT_KID, usedKids, lastRot, now, minted, rl, half, rlog,
          commits, events, auditLog, tried, subs, inbox>>
journal == <<commits, events, auditLog, tried, subs, inbox>>
backend == <<redisUp, data, verKey, sysVer, rl, journal>>
memory == <<cache, cacheVer, lock>>
keyring == <<rsaBlob, RSA_KEYS, CURRENT_KID, usedKids, lastRot, now, minted, half, rlog>>

\* ------------------------------------------------------- backend adapter
Encrypt(x) == [cipher |-> TRUE, body |-> x]
Decrypt(b) == b.body
NoBlob == [cipher |-> FALSE, body |-> Absent]

\* str(RSA_KEYS) as stored under rsa:keys, and eval of it.
Str(ring) == [cipher |-> FALSE, body |-> ring]
Eval(b) == b.body
NoRing == [cipher |-> FALSE, body |-> {}]

\* RedisManager.get_item: the decrypted entity, or None when the key is
\* missing or the backend does not answer.
get_item(t, id) == IF redisUp /\ data[t][id] # NoBlob THEN Decrypt(data[t][id]) ELSE Absent

\* RedisManager.get_system_version: "" when unset or when the backend is down.
get_system_version(t) == IF redisUp THEN sysVer[t] ELSE NoVer

\* RedisManager.search_ids: the ids with a data key; [] when the backend is down.
search_ids(t) == IF redisUp THEN {id \in Ids(t) : data[t][id] # NoBlob} ELSE {}

\* The message of publish_event and the fields of the audit entry of
\* save_item / delete_item.
Event(op, t, id, v) == [op |-> op, type |-> t, id |-> id, version |-> v]
NoEvent == Event("none", "service", NoId, NoVer)

\* (a save_item that sets the data and the system stamp but not the version key)
save_item_without_version_key(t, id, item) ==
    /\ data' = [data EXCEPT ![t][id] = Encrypt(item)]
    /\ verKey' = verKey
    /\ sysVer' = [sysVer EXCEPT ![t] = item.version]
    /\ commits' = commits \cup {Event("updated", t, id, item.version)}

\* The MULTI/EXEC pipeline of save_item: data, version key and system stamp.
save_item(t, id, item) ==
    /\ data' = [data EXCEPT ![t][id] = Encrypt(item)]
    /\ verKey' = [verKey EXCEPT ![t][id] = item.version]
    /\ sysVer' = [sysVer EXCEPT ![t] = item.version]
    /\ commits' = commits \cup {Event("updated", t, id, item.version)}

\* The MULTI/EXEC pipeline of delete_item.
delete_item(t, id, new_system_version) ==
    /\ data' = [data EXCEPT ![t][id] = NoBlob]
    /\ verKey' = [verKey EXCEPT ![t][id] = NoVer]
    /\ sysVer' = [sysVer EXCEPT ![t] = new_system_version]
    /\ commits' = commits \cup {Event("deleted", t, id, new_system_version)}

\* ---------------------------------------------------------------- handlers
Idle == [pc |-> "idle", op |-> "none", t |-> "service", id |-> NoId,
         body |-> NoDict, if_match |-> NoVer, key |-> NoKey,
         link |-> NoLink, action |-> "none",
         ret |-> "none", rt |-> "service", reply |-> NoVer, ids |-> {}, items |-> <<>>,
         att |-> FALSE, val |-> Absent, cur |-> Absent, pend |-> Absent,
         ok |-> TRUE, result |-> "none", out |-> NoVer, conc |-> {},
         sub |-> NoId, claims |-> NoDict, payload |-> NoDict, token |-> NoToken, link0 |-> FALSE,
         todo |-> {}, snapAtt |-> {}, snapVal |-> <<>>, wid |-> NoId,
         kid |-> NoKid, blob |-> NoRing,
         bucket |-> "none", principal |-> NoKey, limit |-> 0, at |-> 0, n |-> 0,
         ev |-> NoEvent, current |-> NoKid, groups |-> <<>>, lookups |-> <<>>]

\* Places in the middle of synchronous code.
SyncLabels == {"upd_got", "lnk_got_ws", "lnk_got_svc", "dsv_got", "dsv_scan", "dsv_loop",
               "iss_loaded", "iss_rl1", "iss_rl2", "iss_got_svc", "iss_got_ws",
               "ver_reloaded", "boot_loaded", "get_got", "dws_got", "lis_rl1", "lis_rl2",
               "dsc_got_svc", "dsc_scan", "dsc_lookup"}

CanRun(h) == \A g \in Handlers \ {h} : ProcOf(g) = ProcOf(h) => hs[g].pc \notin SyncLabels

\* The object a handler holds: the one in the cache map while attached, its
\* own (an object a reload has replaced in the map) otherwise.
Obj(h) == IF hs[h].att THEN cache[ProcOf(h)][hs[h].t][hs[h].id] ELSE hs[h].val

\* Handler g after the cache map of type t in process p lost the objects
\* with ids in S (replaced or popped): g keeps the old object.
Detach(g, p, t, S) ==
    LET r == IF ProcOf(g) = p /\ hs[g].att /\ hs[g].t = t /\ hs[g].id \in S
             THEN [hs[g] EXCEPT !.att = FALSE, !.val = cache[p][t][hs[g].id]]
             ELSE hs[g]
        D == IF ProcOf(g) = p /\ t = "workspace" THEN r.snapAtt \cap S ELSE {}
    IN  IF D = {} THEN r
        ELSE [r EXCEPT !.snapAtt = @ \ D,
                       !.snapVal = [w \in Workspaces |-> IF w \in D THEN cache[p][t][w] ELSE @[w]]]

Done(rec, res, o) == [Idle EXCEPT !.pc = "done", !.op = rec.op, !.t = rec.t, !.id = rec.id,
                                  !.body = rec.body, !.if_match = rec.if_match, !.key = rec.key,
                                  !.link = rec.link, !.action = rec.action,
                                  !.sub = rec.sub, !.claims = rec.claims, !.link0 = rec.link0,
                                  !.result = res, !.out = o, !.conc = rec.conc]

\* The requests in flight when a request arrives (kept for the properties).
InFlight == {g \in Handlers : hs[g].pc \notin {"idle", "done"}}

\* The response has been sent.
Return(h) ==
    /\ hs[h].pc = "done"
    /\ hs' = [hs EXCEPT ![h] = Idle]
    /\ UNCHANGED <<backend, memory, nextVer, reqs, keyring>>

\* ------------------------------------------- InMemoryCaches.reload_*_if_needed
\* A handler calls reload of type t and continues at label r.
CallReload(rec, t, r) == [rec EXCEPT !.pc = "rl_stamp1_call", !.rt = t, !.ret = r]

\* The backend answers get_system_version (first read, or the re-read under the lock).
rl_get_system_version(h) ==
    /\ hs[h].pc \in {"rl_stamp1_call", "rl_stamp2_call"}
    /\ hs' = [hs EXCEPT ![h].reply = get_system_version(hs[h].rt),
                        ![h].pc = IF hs[h].pc = "rl_stamp1_call" THEN "rl_stamp1_ret" ELSE "rl_stamp2_ret"]
    /\ UNCHANGED <<backend, memory, nextVer, reqs, keyring>>

\* (a first check that goes on to the refresh without taking the lock)
rl_first_check_without_lock(h) ==
    LET p == ProcOf(h)
        t == hs[h].rt
    IN  /\ hs[h].pc = "rl_stamp1_ret"
        /\ CanRun(h)
        /\ hs' = [hs EXCEPT ![h].pc = IF hs[h].reply # NoVer /\ hs[h].reply = cacheVer[p][t]
                                      THEN hs[h].ret ELSE "rl_stamp2_call",
                            ![h].reply = NoVer]
        /\ UNCHANGED <<backend, memory, nextVer, reqs, keyring>>

\* if new_ver and new_ver == self.*_sys_ver: return; else async with lock.
rl_first_check(h) ==
    LET p == ProcOf(h)
        t == hs[h].rt
    IN  /\ hs[h].pc = "rl_stamp1_ret"
        /\ CanRun(h)
        /\ IF hs[h].reply # NoVer /\ hs[h].reply = cacheVer[p][t]
           THEN /\ hs' = [hs EXCEPT ![h].pc = hs[h].ret, ![h].reply = NoVer]
                /\ UNCHANGED lock
           ELSE IF lock[p][t] = "none"
           THEN /\ lock' = [lock EXCEPT ![p][t] = h]
                /\ hs' = [hs EXCEPT ![h].pc = "rl_stamp2_call", ![h].reply = NoVer]
           ELSE /\ hs' = [hs EXCEPT ![h].pc = "rl_lock", ![h].reply = NoVer]
                /\ UNCHANGED lock
        /\ UNCHANGED <<backend, cache, cacheVer, nextVer, reqs, keyring>>

\* A waiter on the lock is resumed once the lock has been handed to it.
rl_lock_acquired(h) ==
    /\ hs[h].pc = "rl_lock"
    /\ lock[ProcOf(h)][hs[h].rt] = h
    /\ CanRun(h)
    /\ hs' = [hs EXCEPT ![h].pc = "rl_stamp2_call"]
    /\ UNCHANGED <<backend, memory, nextVer, reqs, keyring>>

\* Lock.release: the lock goes to the waiter, if there is one.
Released(p, t, h) ==
    IF \E g \in Handlers : g # h /\ ProcOf(g) = p /\ hs[g].pc = "rl_lock" /\ hs[g].rt = t
    THEN CHOOSE g \in Handlers : g # h /\ ProcOf(g) = p /\ hs[g].pc = "rl_lock" /\ hs[g].rt = t
    ELSE "none"

\* Under the lock: the same check again, then the scan.
rl_second_check(h) ==
    LET p == ProcOf(h)
        t == hs[h].rt
    IN  /\ hs[h].pc = "rl_stamp2_ret"
        /\ CanRun(h)
        /\ IF hs[h].reply # NoVer /\ hs[h].reply = cacheVer[p][t]
           THEN /\ hs' = [hs EXCEPT ![h].pc = hs[h].ret, ![h].reply = NoVer]
                /\ lock' = [lock EXCEPT ![p][t] = Released(p, t, h)]
           ELSE /\ hs' = [hs EXCEPT ![h].pc = "rl_scan_call"]
                /\ UNCHANGED lock
        /\ UNCHANGED <<backend, cache, cacheVer, nextVer, reqs, keyring>>

\* The backend answers the SCAN of search_ids; the coroutine then gathers
\* one get_item per id.
rl_search_ids(h) ==
    /\ hs[h].pc = "rl_scan_call"
    /\ hs' = [hs EXCEPT ![h].ids = search_ids(hs[h].rt), ![h].pc = "rl_fetch_call"]
    /\ UNCHANGED <<backend, memory, nextVer, reqs, keyring>>

\* The backend answers the gathered get_item calls.
rl_get_items(h) ==
    /\ hs[h].pc = "rl_fetch_call"
    /\ hs' = [hs EXCEPT ![h].items = [id \in Ids(hs[h].rt) |->
                                         IF id \in hs[h].ids THEN get_item(hs[h].rt, id) ELSE Absent],
                        ![h].ids = {},
                        ![h].pc = "rl_fetch_ret"]
    /\ UNCHANGED <<backend, memory, nextVer, reqs, keyring>>

\* self.<map> = items; self.<stamp> = new_ver or ""; the lock is released.
rl_swap(h) ==
    LET p == ProcOf(h)
        t == hs[h].rt
    IN  /\ hs[h].pc = "rl_fetch_ret"
        /\ CanRun(h)
        /\ cache' = [cache EXCEPT ![p][t] = hs[h].items]
        /\ cacheVer' = [cacheVer EXCEPT ![p][t] = hs[h].reply]
        /\ lock' = [lock EXCEPT ![p][t] = Released(p, t, h)]
        /\ hs' = [g \in Handlers |->
                    IF g = h
                    THEN [hs[h] EXCEPT !.pc = hs[h].ret, !.reply = NoVer, !.items = <<>>]
                    ELSE Detach(g, p, t, Ids(t))]
        /\ UNCHANGED <<backend, nextVer, reqs, keyring>>


\* ------------------------------------------------ security.py: key checks
\* validate_authbridge_api_key: the header must be one of the admin keys.
validate_authbridge_api_key(key) == key \in AUTHBRIDGE_API_KEYS

\* new_system_token: a fresh random token (never one handed out before).
new_system_token == nextVer

\* The held object gets the value n (an in-place change of its fields).
Assign(h, n) ==
    IF hs[h].att
    THEN /\ cache' = [cache EXCEPT ![ProcOf(h)][hs[h].t][hs[h].id] = n]
         /\ hs' = [hs EXCEPT ![h].pc = "upd_save_call", ![h].pend = n, ![h].cur = Absent]
    ELSE /\ hs' = [hs EXCEPT ![h].pc = "upd_save_call", ![h].pend = n, ![h].cur = Absent, ![h].val = n]
         /\ UNCHANGED cache

\* --------------------- update_*_info / update_*_content / rekey_* (both types)
UpdateOps == {"update_info", "update_content", "rekey"}

\* The field assignment of each handler; secrets.token_hex(32) yields a key
\* no entity holds yet.
Mutate(op, e, body, fresh) ==
    CASE op = "update_info" -> [e EXCEPT !.info = body]
      [] op = "update_content" -> [e EXCEPT !.content = body]
      [] op = "rekey" -> [e EXCEPT !.api_key = <<"gen", fresh>>]

\* The request arrives: admin key dependency, then get_service/get_workspace
\* begins with a reload.  (The request is one check_rate_limit admits.)
update_start(h, op, t, id, body, ifm, key) ==
    /\ hs[h].pc = "idle"
    /\ CanRun(h)
    /\ op \in UpdateOps
    /\ reqs < MaxReq
    /\ reqs' = reqs + 1
    /\ LET rec == [Idle EXCEPT !.op = op, !.t = t, !.id = id, !.body = body,
                               !.if_match = ifm, !.key = key, !.conc = InFlight]
       IN  hs' = [hs EXCEPT ![h] = IF validate_authbridge_api_key(key)
                                   THEN CallReload(rec, t, "upd_got")
                                   ELSE Done(rec, "AUTHBRIDGE_API_KEYS", NoVer)]
    /\ UNCHANGED <<backend, memory, nextVer, keyring>>

\* get_service returned: 404 when the id is not cached, 412 on an If-Match
\* that differs from the cached version; then the optimistic re-read.
update_got(h) ==
    LET p == ProcOf(h)
        e == cache[p][hs[h].t][hs[h].id]
    IN  /\ hs[h].pc = "upd_got"
        /\ hs[h].op \in UpdateOps
        /\ hs' = [hs EXCEPT ![h] =
                    IF e = Absent THEN Done(hs[h], "NOT_FOUND", NoVer)
                    ELSE IF hs[h].if_match # NoVer /\ hs[h].if_match # e.version
                    THEN Done(hs[h], "PRECONDITION_FAILED", NoVer)
                    ELSE [hs[h] EXCEPT !.pc = "upd_get_call", !.att = TRUE]]
        /\ UNCHANGED <<backend, memory, nextVer, reqs, keyring>>

\* The backend answers rm.get_item(id, type).
update_get_item(h) ==
    /\ hs[h].pc = "upd_get_call"
    /\ hs' = [hs EXCEPT ![h].cur = get_item(hs[h].t, hs[h].id), ![h].pc = "upd_get_ret"]
    /\ UNCHANGED <<backend, memory, nextVer, reqs, keyring>>

\* A handler that assigns the field before it compares the versions.
update_check_assigns_first(h) ==
    LET p == ProcOf(h)
        o == Obj(h)
        n == [Mutate(hs[h].op, o, hs[h].body, nextVer) EXCEPT !.version = new_system_token]
        conflict == hs[h].cur # Absent /\ hs[h].cur.version # o.version
    IN  /\ hs[h].pc = "upd_get_ret"
        /\ CanRun(h)
        /\ IF conflict
           THEN /\ hs' = [hs EXCEPT ![h] = Done(hs[h], "CONFLICT", NoVer)]
                /\ cache' = [cache EXCEPT ![p][hs[h].t][hs[h].id] = Mutate(hs[h].op, o, hs[h].body, nextVer)]
                /\ UNCHANGED nextVer
           ELSE /\ nextVer' = nextVer + 1
                /\ Assign(h, n)
        /\ UNCHANGED <<backend, cacheVer, lock, reqs, keyring>>

\* 409 when the stored version differs from the held object's; otherwise the
\* field is assigned on the held object, save_item sets its version and
\* serializes it, and the pipeline is sent.
update_check(h) ==
    LET p == ProcOf(h)
        o == Obj(h)
        n == [Mutate(hs[h].op, o, hs[h].body, nextVer) EXCEPT !.version = new_system_token]
        conflict == hs[h].cur # Absent /\ hs[h].cur.version # o.version
    IN  /\ hs[h].pc = "upd_get_ret"
        /\ CanRun(h)
        /\ IF conflict
           THEN /\ hs' = [hs EXCEPT ![h] = Done(hs[h], "CONFLICT", NoVer)]
                /\ UNCHANGED <<cache, nextVer>>
           ELSE /\ nextVer' = nextVer + 1
                /\ Assign(h, n)
        /\ UNCHANGED <<backend, cacheVer, lock, reqs, keyring>>

\* ------------------------------ RedisManager.publish_event / RedisManager.audit
\* After the pipeline has executed, save_item / delete_item call
\* publish_event and audit, then return to the handler at label r.
CallPublish_skipped(rec, e, r) == [rec EXCEPT !.pc = r]
CallPublish(rec, e, r) == [rec EXCEPT !.pc = "pub_call", !.ev = e, !.ret = r]

\* redis.publish: the channel takes the message and hands a copy to every
\* subscriber; an exception is logged and dropped.
publish_event(h) ==
    /\ hs[h].pc = "pub_call"
    /\ tried' = tried \cup {<<"publish", hs[h].ev>>}
    /\ IF redisUp
       THEN /\ events' = events \cup {hs[h].ev}
            /\ inbox' = [p \in Procs |-> IF p \in subs THEN inbox[p] + 1 ELSE inbox[p]]
       ELSE UNCHANGED <<events, inbox>>
    /\ hs' = [hs EXCEPT ![h].pc = "aud_call"]
    /\ UNCHANGED <<redisUp, data, verKey, sysVer, rl, commits, auditLog, subs, memory, nextVer, reqs, keyring>>

\* (an audit whose exception reaches the caller)
audit_raising(h) ==
    /\ hs[h].pc = "aud_call"
    /\ tried' = tried \cup {<<"audit", hs[h].ev>>}
    /\ IF redisUp
       THEN auditLog' = auditLog \cup {hs[h].ev}
       ELSE UNCHANGED auditLog
    /\ hs' = [hs EXCEPT ![h].pc = hs[h].ret, ![h].ret = "none", ![h].ev = NoEvent, ![h].ok = redisUp]
    /\ UNCHANGED <<redisUp, data, verKey, sysVer, rl, commits, events, subs, inbox, memory, nextVer, reqs, keyring>>

\* redis.xadd on the audit stream; an exception is logged and dropped.
\* (The entry a handler appends itself after its cache assignment goes
\* through the same call and is dropped in the same way; the stream is read
\* by no code and the handlers' own entries are not kept here.)
audit(h) ==
    /\ hs[h].pc = "aud_call"
    /\ tried' = tried \cup {<<"audit", hs[h].ev>>}
    /\ IF redisUp
       THEN auditLog' = auditLog \cup {hs[h].ev}
       ELSE UNCHANGED auditLog
    /\ hs' = [hs EXCEPT ![h].pc = hs[h].ret, ![h].ret = "none", ![h].ev = NoEvent]
    /\ UNCHANGED <<redisUp, data, verKey, sysVer, rl, commits, events, subs, inbox, memory, nextVer, reqs, keyring>>

\* What follows the pipeline inside save_item and delete_item.
AfterCommit(h) == publish_event(h) \/ audit(h)

\* (save_item with the exception logged and swallowed)
update_save_item_swallowed(h) ==
    /\ hs[h].pc = "upd_save_call"
    /\ IF redisUp
       THEN save_item(hs[h].t, hs[h].id, hs[h].pend)
       ELSE UNCHANGED <<data, verKey, sysVer, commits>>
    /\ hs' = [hs EXCEPT ![h] = IF redisUp
                                THEN CallPublish([hs[h] EXCEPT !.ok = TRUE],
                                                 Event("updated", hs[h].t, hs[h].id, hs[h].pend.version), "upd_save_ret")
                                ELSE [hs[h] EXCEPT !.ok = TRUE, !.pc = "upd_save_ret"]]
    /\ UNCHANGED <<redisUp, rl, events, auditLog, tried, subs, inbox, memory, nextVer, reqs, keyring>>

\* The backend executes the pipeline of save_item, or the call raises.
update_save_item(h) ==
    /\ hs[h].pc = "upd_save_call"
    /\ IF redisUp
       THEN save_item(hs[h].t, hs[h].id, hs[h].pend)
       ELSE UNCHANGED <<data, verKey, sysVer, commits>>
    /\ hs' = [hs EXCEPT ![h] = IF redisUp
                                THEN CallPublish([hs[h] EXCEPT !.ok = TRUE],
                                                 Event("updated", hs[h].t, hs[h].id, hs[h].pend.version), "upd_save_ret")
                                ELSE [hs[h] EXCEPT !.ok = FALSE, !.pc = "upd_save_ret"]]
    /\ UNCHANGED <<redisUp, rl, events, auditLog, tried, subs, inbox, memory, nextVer, reqs, keyring>>

\* caches.<map>[id] = entity; caches.<stamp> = new_ver; the response.
update_finish(h) ==
    LET p == ProcOf(h)
        t == hs[h].t
        id == hs[h].id
        n == hs[h].pend
    IN  /\ hs[h].pc = "upd_save_ret"
        /\ CanRun(h)
        /\ IF hs[h].ok
           THEN /\ cache' = [cache EXCEPT ![p][t][id] = Obj(h)]
                /\ cacheVer' = [cacheVer EXCEPT ![p][t] = n.version]
                /\ hs' = [g \in Handlers |->
                            IF g = h THEN Done(hs[h], "OK", n.version)
                            ELSE IF hs[h].att THEN hs[g] ELSE Detach(g, p, t, {id})]
           ELSE /\ hs' = [hs EXCEPT ![h] = Done(hs[h], "BACKEND_ERROR", NoVer)]
                /\ UNCHANGED <<cache, cacheVer>>
        /\ UNCHANGED <<backend, lock, nextVer, reqs, keyring>>


\* -------------------------------------------------- workspace.py: link_service
\* The self-link test of link_service.
BadLink(l) == l.issuer_id = l.audience_id

\* workspace.services.append(link) / workspace.services.remove(link)
ApplyLink(action, l, s) == IF action = "link-service" THEN Append(s, l) ELSE ListRemove(l, s)

\* The request arrives; get_workspace begins with a reload of the workspaces.
link_start(h, id, action, l, ifm, key) ==
    /\ hs[h].pc = "idle"
    /\ CanRun(h)
    /\ reqs < MaxReq
    /\ reqs' = reqs + 1
    /\ LET rec == [Idle EXCEPT !.op = "link_service", !.t = "workspace", !.id = id, !.action = action,
                               !.link = l, !.if_match = ifm, !.key = key, !.conc = InFlight]
       IN  hs' = [hs EXCEPT ![h] = IF validate_authbridge_api_key(key)
                                   THEN CallReload(rec, "workspace", "lnk_got_ws")
                                   ELSE Done(rec, "AUTHBRIDGE_API_KEYS", NoVer)]
    /\ UNCHANGED <<backend, memory, nextVer, keyring>>

\* get_workspace returned the cached object (or 404); reload_services begins.
link_got_workspace(h) ==
    /\ hs[h].pc = "lnk_got_ws"
    /\ hs' = [hs EXCEPT ![h] =
                IF cache[ProcOf(h)]["workspace"][hs[h].id] = Absent
                THEN Done(hs[h], "NOT_FOUND", NoVer)
                ELSE CallReload([hs[h] EXCEPT !.att = TRUE], "service", "lnk_got_svc")]
    /\ UNCHANGED <<backend, memory, nextVer, reqs, keyring>>

\* The checks between reload_services and the optimistic re-read.
link_checks(h) ==
    LET svc == cache[ProcOf(h)]["service"]
        l == hs[h].link
    IN  /\ hs[h].pc = "lnk_got_svc"
        /\ hs' = [hs EXCEPT ![h] =
                    IF BadLink(l) THEN Done(hs[h], "BAD_LINK", NoVer)
                    ELSE IF svc[l.issuer_id] = Absent \/ svc[l.audience_id] = Absent
                    THEN Done(hs[h], "NOT_FOUND", NoVer)
                    ELSE IF hs[h].if_match # NoVer /\ hs[h].if_match # Obj(h).version
                    THEN Done(hs[h], "PRECONDITION_FAILED", NoVer)
                    ELSE [hs[h] EXCEPT !.pc = "lnk_get_call"]]
        /\ UNCHANGED <<backend, memory, nextVer, reqs, keyring>>

\* The backend answers rm.get_item(workspace_id, "workspace").
link_get_item(h) ==
    /\ hs[h].pc = "lnk_get_call"
    /\ hs' = [hs EXCEPT ![h].cur = get_item(hs[h].t, hs[h].id), ![h].pc = "lnk_get_ret"]
    /\ UNCHANGED <<backend, memory, nextVer, reqs, keyring>>

\* 409 on a version mismatch, then the action on the held list, then the
\* pipeline of save_item is sent.
link_apply(h) ==
    LET o == Obj(h)
        l == hs[h].link
        a == hs[h].action
    IN  /\ hs[h].pc = "lnk_get_ret"
        /\ CanRun(h)
        /\ IF hs[h].cur # Absent /\ hs[h].cur.version # o.version
           THEN /\ hs' = [hs EXCEPT ![h] = Done(hs[h], "CONFLICT", NoVer)]
                /\ UNCHANGED <<cache, nextVer>>
           ELSE IF a \notin {"link-service", "unlink-service"}
           THEN /\ hs' = [hs EXCEPT ![h] = Done(hs[h], "BAD_ACTION", NoVer)]
                /\ UNCHANGED <<cache, nextVer>>
           ELSE IF a = "link-service" /\ LinkIn(l, o.services)
           THEN /\ hs' = [hs EXCEPT ![h] = Done(hs[h], "ALREADY_LINKED", NoVer)]
                /\ UNCHANGED <<cache, nextVer>>
           ELSE IF a = "unlink-service" /\ ~LinkIn(l, o.services)
           THEN /\ hs' = [hs EXCEPT ![h] = Done(hs[h], "NOT_LINKED", NoVer)]
                /\ UNCHANGED <<cache, nextVer>>
           ELSE /\ nextVer' = nextVer + 1
                /\ Assign(h, [o EXCEPT !.services = ApplyLink(a, l, o.services),
                                       !.version = new_system_token])
        /\ UNCHANGED <<backend, cacheVer, lock, reqs, keyring>>

\* ----------------------------------- create_service / create_workspace
\* The request arrives with the entity of the body (bkey = NoKey: the body
\* gives no api_key and the model's default_factory draws one); the handler
\* asks service_exists / workspace_exists.
create_start(h, t, id, bkey, links, key) ==
    /\ hs[h].pc = "idle"
    /\ CanRun(h)
    /\ reqs < MaxReq
    /\ reqs' = reqs + 1
    /\ LET k == IF bkey = NoKey THEN <<"gen", nextVer>> ELSE bkey
           rec == [Idle EXCEPT !.op = "create", !.t = t, !.id = id, !.key = key, !.conc = InFlight,
                               !.val = Entity(NoVer, k, NoDict, NoDict, links)]
       IN  /\ hs' = [hs EXCEPT ![h] = IF validate_authbridge_api_key(key)
                                      THEN [rec EXCEPT !.pc = "crt_get_call"]
                                      ELSE Done(rec, "AUTHBRIDGE_API_KEYS", NoVer)]
           /\ nextVer' = IF bkey = NoKey THEN nextVer + 1 ELSE nextVer
    /\ UNCHANGED <<backend, memory, keyring>>

\* The backend answers the get_item of service_exists / workspace_exists.
create_exists(h) ==
    /\ hs[h].pc = "crt_get_call"
    /\ hs' = [hs EXCEPT ![h].cur = get_item(hs[h].t, hs[h].id), ![h].pc = "crt_get_ret"]
    /\ UNCHANGED <<backend, memory, nextVer, reqs, keyring>>

\* 400 ALREADY_EXISTS when something was stored; otherwise save_item is sent.
create_check(h) ==
    /\ hs[h].pc = "crt_get_ret"
    /\ CanRun(h)
    /\ IF hs[h].cur # Absent
       THEN /\ hs' = [hs EXCEPT ![h] = Done(hs[h], "ALREADY_EXISTS", NoVer)]
            /\ UNCHANGED <<cache, nextVer>>
       ELSE /\ nextVer' = nextVer + 1
            /\ Assign(h, [hs[h].val EXCEPT !.version = new_system_token])
    /\ UNCHANGED <<backend, cacheVer, lock, reqs, keyring>>

\* --------------------------------------------------- service.py: delete_service
\* A workspace object of the snapshot list(caches.workspaces.values()).
SnapObj(h, w) == IF w \in hs[h].snapAtt THEN cache[ProcOf(h)]["workspace"][w] ELSE hs[h].snapVal[w]

Mentions(l, sid) == l.issuer_id = sid \/ l.audience_id = sid
\* The list after the inner loop removed every link that mentions sid.
WithoutService(s, sid) == SelectSeq(s, LAMBDA l : ~Mentions(l, sid))

delete_service_start(h, id, key) ==
    /\ hs[h].pc = "idle"
    /\ CanRun(h)
    /\ reqs < MaxReq
    /\ reqs' = reqs + 1
    /\ LET rec == [Idle EXCEPT !.op = "delete_service", !.t = "service", !.id = id, !.key = key,
                               !.conc = InFlight]
       IN  hs' = [hs EXCEPT ![h] = IF validate_authbridge_api_key(key)
                                   THEN CallReload(rec, "service", "dsv_got")
                                   ELSE Done(rec, "AUTHBRIDGE_API_KEYS", NoVer)]
    /\ UNCHANGED <<backend, memory, nextVer, keyring>>

\* get_service returned the cached object, or 404.
delete_service_got(h) ==
    /\ hs[h].pc = "dsv_got"
    /\ hs' = [hs EXCEPT ![h] =
                IF cache[ProcOf(h)]["service"][hs[h].id] = Absent
                THEN Done(hs[h], "NOT_FOUND", NoVer)
                ELSE [hs[h] EXCEPT !.pc = "dsv_get_call", !.att = TRUE]]
    /\ UNCHANGED <<backend, memory, nextVer, reqs, keyring>>

\* The backend answers rm.get_item(service_id, "service").
delete_service_get_item(h) ==
    /\ hs[h].pc = "dsv_get_call"
    /\ hs' = [hs EXCEPT ![h].cur = get_item("service", hs[h].id), ![h].pc = "dsv_get_ret"]
    /\ UNCHANGED <<backend, memory, nextVer, reqs, keyring>>

\* 409 on a version mismatch; otherwise reload_workspaces begins.
delete_service_check(h) ==
    /\ hs[h].pc = "dsv_get_ret"
    /\ CanRun(h)
    /\ hs' = [hs EXCEPT ![h] =
                IF hs[h].cur # Absent /\ hs[h].cur.version # Obj(h).version
                THEN Done(hs[h], "CONFLICT", NoVer)
                ELSE CallReload([hs[h] EXCEPT !.att = FALSE, !.val = Absent, !.cur = Absent],
                                "workspace", "dsv_scan")]
    /\ UNCHANGED <<backend, memory, nextVer, reqs, keyring>>

\* list(caches.workspaces.values()): the objects now in the map.
delete_service_snapshot(h) ==
    LET W == {w \in Workspaces : cache[ProcOf(h)]["workspace"][w] # Absent}
    IN  /\ hs[h].pc = "dsv_scan"
        /\ hs' = [hs EXCEPT ![h].todo = W, ![h].snapAtt = W,
                            ![h].snapVal = [w \in Workspaces |-> Absent], ![h].pc = "dsv_loop"]
        /\ UNCHANGED <<backend, memory, nextVer, reqs, keyring>>

\* One turn of the loop over the snapshot: a workspace without a link that
\* mentions the service is skipped; otherwise the links are removed from the
\* held object and save_item is sent.  After the loop, delete_item is sent.
delete_service_loop(h) ==
    LET p == ProcOf(h)
    IN  /\ hs[h].pc = "dsv_loop"
        /\ IF hs[h].todo = {}
           THEN /\ nextVer' = nextVer + 1
                /\ hs' = [hs EXCEPT ![h].out = new_system_token, ![h].pc = "dsv_del_call"]
                /\ UNCHANGED cache
           ELSE \E w \in hs[h].todo :
                  LET o == SnapObj(h, w)
                      n == [o EXCEPT !.services = WithoutService(o.services, hs[h].id),
                                     !.version = new_system_token]
                  IN  IF n.services = o.services
                      THEN /\ hs' = [hs EXCEPT ![h].todo = @ \ {w}, ![h].snapAtt = @ \ {w}]
                           /\ UNCHANGED <<cache, nextVer>>
                      ELSE /\ nextVer' = nextVer + 1
                           /\ IF w \in hs[h].snapAtt
                              THEN /\ cache' = [cache EXCEPT ![p]["workspace"][w] = n]
                                   /\ hs' = [hs EXCEPT ![h].wid = w, ![h].pend = n, ![h].pc = "dsv_save_call"]
                              ELSE /\ hs' = [hs EXCEPT ![h].wid = w, ![h].pend = n, ![h].pc = "dsv_save_call",
                                                      ![h].snapVal[w] = n]
                                   /\ UNCHANGED cache
        /\ UNCHANGED <<backend, cacheVer, lock, reqs, keyring>>

\* The backend executes the pipeline of save_item for the workspace, or the call raises.
delete_service_save_item(h) ==
    /\ hs[h].pc = "dsv_save_call"
    /\ IF redisUp
       THEN save_item("workspace", hs[h].wid, hs[h].pend)
       ELSE UNCHANGED <<data, verKey, sysVer, commits>>
    /\ hs' = [hs EXCEPT ![h] = IF redisUp
                                THEN CallPublish([hs[h] EXCEPT !.ok = TRUE],
                                                 Event("updated", "workspace", hs[h].wid, hs[h].pend.version), "dsv_save_ret")
                                ELSE [hs[h] EXCEPT !.ok = FALSE, !.pc = "dsv_save_ret"]]
    /\ UNCHANGED <<redisUp, rl, events, auditLog, tried, subs, inbox, memory, nextVer, reqs, keyring>>

\* caches.workspaces[workspace.id] = workspace; caches.workspace_sys_ver = new_ver_t.
delete_service_saved(h) ==
    LET p == ProcOf(h)
        w == hs[h].wid
    IN  /\ hs[h].pc = "dsv_save_ret"
        /\ CanRun(h)
        /\ IF hs[h].ok
           THEN /\ cache' = [cache EXCEPT ![p]["workspace"][w] = SnapObj(h, w)]
                /\ cacheVer' = [cacheVer EXCEPT ![p]["workspace"] = hs[h].pend.version]
                /\ hs' = [g \in Handlers |->
                            IF g = h THEN [hs[h] EXCEPT !.todo = @ \ {w}, !.snapAtt = @ \ {w},
                                                        !.wid = NoId, !.pend = Absent, !.pc = "dsv_loop"]
                            ELSE IF w \in hs[h].snapAtt THEN hs[g] ELSE Detach(g, p, "workspace", {w})]
           ELSE /\ hs' = [hs EXCEPT ![h] = Done(hs[h], "BACKEND_ERROR", NoVer)]
                /\ UNCHANGED <<cache, cacheVer>>
        /\ UNCHANGED <<backend, lock, nextVer, reqs, keyring>>

\* The backend executes the pipeline of delete_item, or the call raises.
delete_service_delete_item(h) ==
    /\ hs[h].pc = "dsv_del_call"
    /\ IF redisUp
       THEN delete_item("service", hs[h].id, hs[h].out)
       ELSE UNCHANGED <<data, verKey, sysVer, commits>>
    /\ hs' = [hs EXCEPT ![h] = IF redisUp
                                THEN CallPublish([hs[h] EXCEPT !.ok = TRUE],
                                                 Event("deleted", "service", hs[h].id, hs[h].out), "dsv_del_ret")
                                ELSE [hs[h] EXCEPT !.ok = FALSE, !.pc = "dsv_del_ret"]]
    /\ UNCHANGED <<redisUp, rl, events, auditLog, tried, subs, inbox, memory, nextVer, reqs, keyring>>

\* caches.services.pop(service_id, None); caches.service_sys_ver = new_ver.
delete_service_finish(h) ==
    LET p == ProcOf(h)
    IN  /\ hs[h].pc = "dsv_del_ret"
        /\ CanRun(h)
        /\ IF hs[h].ok
           THEN /\ cache' = [cache EXCEPT ![p]["service"][hs[h].id] = Absent]
                /\ cacheVer' = [cacheVer EXCEPT ![p]["service"] = hs[h].out]
                /\ hs' = [g \in Handlers |->
                            IF g = h THEN Done(hs[h], "OK", hs[h].out)
                            ELSE Detach(g, p, "service", {hs[h].id})]
           ELSE /\ hs' = [hs EXCEPT ![h] = Done(hs[h], "BACKEND_ERROR", NoVer)]
                /\ UNCHANGED <<cache, cacheVer>>
        /\ UNCHANGED <<backend, lock, nextVer, reqs, keyring>>

\* ------------------------------------------- workspace.py: delete_workspace
delete_workspace_start(h, id, key) ==
    /\ hs[h].pc = "idle"
    /\ CanRun(h)
    /\ reqs < MaxReq
    /\ reqs' = reqs + 1
    /\ LET rec == [Idle EXCEPT !.op = "delete_workspace", !.t = "workspace", !.id = id, !.key = key,
                               !.conc = InFlight]
       IN  hs' = [hs EXCEPT ![h] = IF validate_authbridge_api_key(key)
                                   THEN CallReload(rec, "workspace", "dws_got")
                                   ELSE Done(rec, "AUTHBRIDGE_API_KEYS", NoVer)]
    /\ UNCHANGED <<backend, memory, nextVer, keyring>>

\* get_workspace returned the cached object, or 404.
delete_workspace_got(h) ==
    /\ hs[h].pc = "dws_got"
    /\ hs' = [hs EXCEPT ![h] =
                IF cache[ProcOf(h)]["workspace"][hs[h].id] = Absent
                THEN Done(hs[h], "NOT_FOUND", NoVer)
                ELSE [hs[h] EXCEPT !.pc = "dws_get_call", !.att = TRUE]]
    /\ UNCHANGED <<backend, memory, nextVer, reqs, keyring>>

\* The backend answers rm.get_item(workspace_id, "workspace").
delete_workspace_get_item(h) ==
    /\ hs[h].pc = "dws_get_call"
    /\ hs' = [hs EXCEPT ![h].cur = get_item("workspace", hs[h].id), ![h].pc = "dws_get_ret"]
    /\ UNCHANGED <<backend, memory, nextVer, reqs, keyring>>

\* 409 on a version mismatch; otherwise new_system_token and delete_item is sent.
delete_workspace_check(h) ==
    /\ hs[h].pc = "dws_get_ret"
    /\ CanRun(h)
    /\ IF hs[h].cur # Absent /\ hs[h].cur.version # Obj(h).version
       THEN /\ hs' = [hs EXCEPT ![h] = Done(hs[h], "CONFLICT", NoVer)]
            /\ UNCHANGED nextVer
       ELSE /\ nextVer' = nextVer + 1
            /\ hs' = [hs EXCEPT ![h].out = new_system_token, ![h].cur = Absent, ![h].pc = "dws_del_call"]
    /\ UNCHANGED <<backend, memory, reqs, keyring>>

\* The backend executes the pipeline of delete_item, or the call raises.
delete_workspace_delete_item(h) ==
    /\ hs[h].pc = "dws_del_call"
    /\ IF redisUp
       THEN delete_item("workspace", hs[h].id, hs[h].out)
       ELSE UNCHANGED <<data, verKey, sysVer, commits>>
    /\ hs' = [hs EXCEPT ![h] = IF redisUp
                                THEN CallPublish([hs[h] EXCEPT !.ok = TRUE],
                                                 Event("deleted", "workspace", hs[h].id, hs[h].out), "dws_del_ret")
                                ELSE [hs[h] EXCEPT !.ok = FALSE, !.pc = "dws_del_ret"]]
    /\ UNCHANGED <<redisUp, rl, events, auditLog, tried, subs, inbox, memory, nextVer, reqs, keyring>>

\* caches.workspaces.pop(workspace_id, None); caches.workspace_sys_ver = new_ver.
delete_workspace_finish(h) ==
    LET p == ProcOf(h)
    IN  /\ hs[h].pc = "dws_del_ret"
        /\ CanRun(h)
        /\ IF hs[h].ok
           THEN /\ cache' = [cache EXCEPT ![p]["workspace"][hs[h].id] = Absent]
                /\ cacheVer' = [cacheVer EXCEPT ![p]["workspace"] = hs[h].out]
                /\ hs' = [g \in Handlers |->
                            IF g = h THEN Done(hs[h], "OK", hs[h].out)
                            ELSE Detach(g, p, "workspace", {hs[h].id})]
           ELSE /\ hs' = [hs EXCEPT ![h] = Done(hs[h], "BACKEND_ERROR", NoVer)]
                /\ UNCHANGED <<cache, cacheVer>>
        /\ UNCHANGED <<backend, lock, nextVer, reqs, keyring>>

DeleteWorkspace(h) ==
    \/ delete_workspace_got(h)
    \/ delete_workspace_get_item(h)
    \/ delete_workspace_check(h)
    \/ delete_workspace_delete_item(h)
    \/ delete_workspace_finish(h)

\* ------------------------------------------------------ token.py: the key ring
\* lifespan has run load_rsa_keys in the process.
Booted(p) == RSA_KEYS[p] # {}

\* A handler calls load_rsa_keys and continues at label r.
CallLoad(rec, r) == [rec EXCEPT !.pc = "lk_ping_call", !.ret = r]

\* The backend answers the PING of is_available.
load_is_available(h) ==
    /\ hs[h].pc = "lk_ping_call"
    /\ hs' = [hs EXCEPT ![h].ok = redisUp, ![h].pc = "lk_ping_ret"]
    /\ UNCHANGED <<backend, memory, nextVer, reqs, keyring>>

\* Backend down: a single ephemeral key when the process has none.  Backend
\* up: get_raw("rsa:keys") is sent.
load_after_ping(h) ==
    LET p == ProcOf(h)
    IN  /\ hs[h].pc = "lk_ping_ret"
        /\ CanRun(h)
        /\ IF hs[h].ok
           THEN /\ hs' = [hs EXCEPT ![h].pc = "lk_get_call"]
                /\ UNCHANGED <<RSA_KEYS, CURRENT_KID, usedKids>>
           ELSE /\ hs' = [hs EXCEPT ![h].pc = hs[h].ret]
                /\ IF RSA_KEYS[p] = {} \/ CURRENT_KID[p] = NoKid
                   THEN \E k \in Kids \ usedKids :
                          /\ RSA_KEYS' = [RSA_KEYS EXCEPT ![p] = {k}]
                          /\ CURRENT_KID' = [CURRENT_KID EXCEPT ![p] = k]
                          /\ usedKids' = usedKids \cup {k}
                   ELSE UNCHANGED <<RSA_KEYS, CURRENT_KID, usedKids>>
        /\ UNCHANGED <<backend, memory, half, rlog, nextVer, reqs, rsaBlob, lastRot, now, minted>>

\* The backend answers get_raw("rsa:keys"), or the call raises.
load_get_raw(h) ==
    /\ hs[h].pc = "lk_get_call"
    /\ hs' = [hs EXCEPT ![h].ok = redisUp, ![h].blob = IF redisUp THEN rsaBlob ELSE NoRing,
                        ![h].pc = "lk_get_ret"]
    /\ UNCHANGED <<backend, memory, nextVer, reqs, keyring>>

\* A stored ring replaces the in-memory ring and the current kid becomes
\* sorted(kids)[-1]; with nothing stored a fresh pair becomes the ring and
\* set_raw is sent.
load_parse(h) ==
    LET p == ProcOf(h)
    IN  /\ hs[h].pc = "lk_get_ret"
        /\ CanRun(h)
        /\ IF ~hs[h].ok
           THEN /\ hs' = [hs EXCEPT ![h] = Done(hs[h], "BACKEND_ERROR", NoVer)]
                /\ UNCHANGED <<RSA_KEYS, CURRENT_KID, usedKids>>
           ELSE IF hs[h].blob # NoRing
           THEN /\ RSA_KEYS' = [RSA_KEYS EXCEPT ![p] = Eval(hs[h].blob)]
                /\ CURRENT_KID' = [CURRENT_KID EXCEPT ![p] = LastSorted(Eval(hs[h].blob))]
                /\ hs' = [hs EXCEPT ![h].pc = hs[h].ret, ![h].blob = NoRing]
                /\ UNCHANGED usedKids
           ELSE \E k \in Kids \ usedKids :
                  /\ RSA_KEYS' = [RSA_KEYS EXCEPT ![p] = {k}]
                  /\ CURRENT_KID' = [CURRENT_KID EXCEPT ![p] = k]
                  /\ usedKids' = usedKids \cup {k}
                  /\ hs' = [hs EXCEPT ![h].blob = Str({k}), ![h].pc = "lk_set_call"]
        /\ UNCHANGED <<backend, memory, half, rlog, nextVer, reqs, rsaBlob, lastRot, now, minted>>

\* The backend executes set_raw("rsa:keys", ...), or the call raises
\* (load_rsa_keys and rotate_rsa_key).
ring_set_raw(h) ==
    /\ hs[h].pc \in {"lk_set_call", "rot_set_call"}
    /\ rsaBlob' = IF redisUp THEN hs[h].blob ELSE rsaBlob
    /\ hs' = [hs EXCEPT ![h].ok = redisUp, ![h].blob = NoRing,
                        ![h].pc = IF hs[h].pc = "lk_set_call" THEN "lk_set_ret" ELSE "rot_set_ret"]
    /\ UNCHANGED <<backend, memory, half, rlog, nextVer, reqs, RSA_KEYS, CURRENT_KID, usedKids, lastRot, now, minted>>

\* load_rsa_keys returns after persisting the fresh ring.
load_return(h) ==
    /\ hs[h].pc = "lk_set_ret"
    /\ CanRun(h)
    /\ hs' = [hs EXCEPT ![h] = IF hs[h].ok THEN [hs[h] EXCEPT !.pc = hs[h].ret]
                               ELSE Done(hs[h], "BACKEND_ERROR", NoVer)]
    /\ UNCHANGED <<backend, memory, nextVer, reqs, keyring>>

\* The part of lifespan that loads the ring when the process starts.
boot_start(h) ==
    /\ hs[h].pc = "idle"
    /\ ~Booted(ProcOf(h))
    /\ \A g \in Handlers : ProcOf(g) = ProcOf(h) => hs[g].pc = "idle"
    /\ hs' = [hs EXCEPT ![h] = CallLoad([Idle EXCEPT !.op = "boot"], "boot_loaded")]
    /\ UNCHANGED <<backend, memory, nextVer, reqs, keyring>>

\* The process starts to serve requests.
boot_finish(h) ==
    /\ hs[h].pc = "boot_loaded"
    /\ hs' = [hs EXCEPT ![h] = Idle]
    /\ UNCHANGED <<backend, memory, nextVer, reqs, keyring>>

\* rotate_keys (system.py) calls rotate_rsa_key: a fresh pair joins the
\* in-memory ring and becomes current, then is_available is asked.
rotate_start(h, key) ==
    LET p == ProcOf(h)
        rec == [Idle EXCEPT !.op = "rotate", !.key = key, !.conc = InFlight]
    IN  /\ hs[h].pc = "idle"
        /\ CanRun(h)
        /\ Booted(p)
        /\ reqs < MaxReq
        /\ reqs' = reqs + 1
        /\ IF validate_authbridge_api_key(key)
           THEN \E k \in Kids \ usedKids :
                  /\ RSA_KEYS' = [RSA_KEYS EXCEPT ![p] = @ \cup {k}]
                  /\ CURRENT_KID' = [CURRENT_KID EXCEPT ![p] = k]
                  /\ usedKids' = usedKids \cup {k}
                  /\ hs' = [hs EXCEPT ![h] = [rec EXCEPT !.kid = k, !.pc = "rot_ping_call"]]
           ELSE /\ hs' = [hs EXCEPT ![h] = Done(rec, "AUTHBRIDGE_API_KEYS", NoVer)]
                /\ UNCHANGED <<RSA_KEYS, CURRENT_KID, usedKids>>
        /\ UNCHANGED <<backend, memory, half, rlog, nextVer, rsaBlob, lastRot, now, minted>>

\* The backend answers the PING of is_available.
rotate_is_available(h) ==
    /\ hs[h].pc = "rot_ping_call"
    /\ hs' = [hs EXCEPT ![h].ok = redisUp, ![h].pc = "rot_ping_ret"]
    /\ UNCHANGED <<backend, memory, nextVer, reqs, keyring>>

\* system.py binds RSA_KEYS and CURRENT_KID with `from app.routers.token
\* import ...` when the module is loaded: the dict object and the None of
\* that moment.  lifespan's load_rsa_keys rebinds token.RSA_KEYS to a new
\* dict before the first request, so the imported dict stays empty, and the
\* imported CURRENT_KID stays None.
system_RSA_KEYS == {}
system_CURRENT_KID == NoKid

\* The response of rotate_keys carries the new kid and `current`.
RotateDone(h) ==
    /\ hs' = [hs EXCEPT ![h] = [Done(hs[h], "OK", NoVer) EXCEPT !.kid = hs[h].kid,
                                                                !.current = system_CURRENT_KID]]
    /\ lastRot' = [lastRot EXCEPT ![ProcOf(h)] = hs[h].kid]

\* Backend up: str(RSA_KEYS) of this moment is sent with set_raw.
rotate_after_ping(h) ==
    /\ hs[h].pc = "rot_ping_ret"
    /\ CanRun(h)
    /\ IF hs[h].ok
       THEN /\ hs' = [hs EXCEPT ![h].blob = Str(RSA_KEYS[ProcOf(h)]), ![h].pc = "rot_set_call"]
            /\ UNCHANGED lastRot
       ELSE RotateDone(h)
    /\ UNCHANGED <<backend, memory, half, rlog, nextVer, reqs, rsaBlob, RSA_KEYS, CURRENT_KID, usedKids, now, minted>>

rotate_finish(h) ==
    /\ hs[h].pc = "rot_set_ret"
    /\ CanRun(h)
    /\ IF hs[h].ok
       THEN RotateDone(h)
       ELSE /\ hs' = [hs EXCEPT ![h] = Done(hs[h], "BACKEND_ERROR", NoVer)]
            /\ UNCHANGED lastRot
    /\ UNCHANGED <<backend, memory, half, rlog, nextVer, reqs, rsaBlob, RSA_KEYS, CURRENT_KID, usedKids, now, minted>>

\* ------------------------------------------------------- token.py: issue_token
ACCESS_TOKEN_EXPIRATION_MIN == 60
keys_to_exclude == {"iss", "aud", "sub", "exp"}
Restrict(d, K) == [k \in K |-> d[k]]
Content(iss, aud, sub) == [k \in {"iss", "aud", "sub"} |->
                              CASE k = "iss" -> iss [] k = "aud" -> aud [] OTHER -> sub]
\* (caller claims nested as they came)
filtered_claims_unfiltered(claims) == claims
filtered_claims(claims) == Restrict(claims, (DOMAIN claims) \ keys_to_exclude)

\* Payload.validate_payload against the cached maps of process p.
validate_payload(p, c) ==
    IF cache[p]["service"][c["iss"]] = Absent THEN "NOT_FOUND"
    ELSE IF cache[p]["service"][c["aud"]] = Absent THEN "NOT_FOUND"
    ELSE IF c["iss"] = c["aud"] THEN "BAD_REQUEST"
    ELSE IF cache[p]["workspace"][c["sub"]] = Absent THEN "NOT_FOUND"
    ELSE "OK"

\* validate_item_api_key: strict for services, admin keys accepted otherwise.
validate_item_api_key(api_key, item, entity_type) ==
    IF api_key = NoKey THEN "NO_API_KEY"
    ELSE IF item = Absent THEN "INVALID_ENTITY"
    ELSE IF entity_type = "service"
    THEN (IF api_key # item.api_key THEN "INVALID_ENTITY_KEY" ELSE "OK")
    ELSE IF api_key \in AUTHBRIDGE_API_KEYS THEN "OK"
    ELSE IF api_key # item.api_key THEN "INVALID_ENTITY_KEY"
    ELSE "OK"

\* next(l for l in workspace.services if issuer and audience match), or None.
valid_link(s, iss, aud) ==
    LET l == ServiceLink(iss, aud, NoDict)
    IN  IF LinkIn(l, s) THEN s[FirstIdx(l, s)] ELSE NoLink

get_service_specific_ttl_minutes(p, service_id) ==
    LET svc == cache[p]["service"][service_id]
    IN  IF svc # Absent /\ "token_ttl_min" \in DOMAIN svc.info /\ svc.info["token_ttl_min"] > 0
        THEN svc.info["token_ttl_min"]
        ELSE ACCESS_TOKEN_EXPIRATION_MIN

\* issue_jwt_token with a current kid: exp is added and the token is signed
\* with the private key of CURRENT_KID.
issue_jwt_token(p, payload, expiration_minutes) ==
    Token(CURRENT_KID[p], generate_rsa_keypair(CURRENT_KID[p])[2],
          Update(payload, [k \in {"exp"} |-> now + expiration_minutes]))

\* The link (iss, aud) is in the stored workspace sub.
LinkStored(l, sub) ==
    /\ data["workspace"][sub] # NoBlob
    /\ LinkIn(l, Decrypt(data["workspace"][sub]).services)

\* The request arrives (one the limiter admits); load_rsa_keys begins.
\* link0 remembers whether the link was stored at this moment.
issue_start(h, service_id, aud, sub, claims, key) ==
    LET l == ServiceLink(service_id, aud, NoDict)
        rec == [Idle EXCEPT !.op = "issue", !.t = "service", !.id = service_id, !.link = l,
                            !.sub = sub, !.claims = claims, !.key = key,
                            !.link0 = LinkStored(l, sub), !.conc = InFlight]
    IN  /\ hs[h].pc = "idle"
        /\ CanRun(h)
        /\ Booted(ProcOf(h))
        /\ reqs < MaxReq
        /\ reqs' = reqs + 1
        /\ hs' = [hs EXCEPT ![h] = CallLoad(rec, "iss_loaded")]
        /\ UNCHANGED <<backend, memory, nextVer, keyring>>

\* await reload_services()
issue_loaded(h) ==
    /\ hs[h].pc = "iss_loaded"
    /\ hs' = [hs EXCEPT ![h] = CallReload(hs[h], "service", "iss_rl1")]
    /\ UNCHANGED <<backend, memory, nextVer, reqs, keyring>>

\* await reload_workspaces()
issue_reloaded(h) ==
    /\ hs[h].pc = "iss_rl1"
    /\ hs' = [hs EXCEPT ![h] = CallReload(hs[h], "workspace", "iss_rl2")]
    /\ UNCHANGED <<backend, memory, nextVer, reqs, keyring>>

\* content, filtered_claims, Payload(payload=content); then get_service begins.
issue_validate(h) ==
    LET c == Content(hs[h].id, hs[h].link.audience_id, hs[h].sub)
        f == filtered_claims(hs[h].claims)
        v == validate_payload(ProcOf(h), c)
    IN  /\ hs[h].pc = "iss_rl2"
        /\ hs' = [hs EXCEPT ![h] =
                    IF v # "OK" THEN Done(hs[h], v, NoVer)
                    ELSE CallReload([hs[h] EXCEPT !.payload =
                                        IF f # NoDict THEN Update(c, [k \in {"claims"} |-> f]) ELSE c],
                                    "service", "iss_got_svc")]
        /\ UNCHANGED <<backend, memory, nextVer, reqs, keyring>>

\* get_service returned; validate_item_api_key; then get_workspace begins.
issue_authenticate(h) ==
    LET svc == cache[ProcOf(h)]["service"][hs[h].id]
        v == validate_item_api_key(hs[h].key, svc, "service")
    IN  /\ hs[h].pc = "iss_got_svc"
        /\ hs' = [hs EXCEPT ![h] =
                    IF svc = Absent THEN Done(hs[h], "NOT_FOUND", NoVer)
                    ELSE IF v # "OK" THEN Done(hs[h], v, NoVer)
                    ELSE CallReload(hs[h], "workspace", "iss_got_ws")]
        /\ UNCHANGED <<backend, memory, nextVer, reqs, keyring>>

\* get_workspace returned; the link gate, the link context, the TTL and the mint.
issue_mint(h) ==
    LET p == ProcOf(h)
        ws == cache[p]["workspace"][hs[h].sub]
        l == valid_link(ws.services, hs[h].id, hs[h].link.audience_id)
        pl == IF l.context # NoDict THEN Update(hs[h].payload, l.context) ELSE hs[h].payload
        tok == issue_jwt_token(p, pl, get_service_specific_ttl_minutes(p, hs[h].id))
    IN  /\ hs[h].pc = "iss_got_ws"
        /\ IF ws = Absent
           THEN /\ hs' = [hs EXCEPT ![h] = Done(hs[h], "NOT_FOUND", NoVer)]
                /\ UNCHANGED minted
           ELSE IF l = NoLink
           THEN /\ hs' = [hs EXCEPT ![h] = Done(hs[h], "UNLINKED", NoVer)]
                /\ UNCHANGED minted
           ELSE IF CURRENT_KID[p] \notin RSA_KEYS[p]
           THEN /\ hs' = [hs EXCEPT ![h] = Done(hs[h], "NO_RSA_KEY", NoVer)]
                /\ UNCHANGED minted
           ELSE /\ hs' = [hs EXCEPT ![h] = [Done(hs[h], "OK", NoVer) EXCEPT !.token = tok]]
                /\ minted' = minted \cup {tok}
        /\ UNCHANGED <<backend, memory, half, rlog, nextVer, reqs, rsaBlob, RSA_KEYS, CURRENT_KID, usedKids, lastRot, now>>

\* ------------------------------------------- service.py: service_discovery_v1
\* caches.workspaces.values() in the order of the dict.
WorkspaceOrder == <<"W1", "W2">>

RECURSIVE Flatten(_)
Flatten(ss) == IF ss = <<>> THEN <<>> ELSE Head(ss) \o Flatten(Tail(ss))

\* A comprehension without its `if link.issuer_id == service.id`.
found_links_unfiltered(ws, sid) ==
    Flatten([i \in 1..Len(WorkspaceOrder) |->
               LET w == WorkspaceOrder[i]
               IN  [k \in 1..Len(ws[w].services) |->
                      [workspace_id |-> w, service_id |-> ws[w].services[k].audience_id,
                       context |-> ws[w].services[k].context]]])

\* The comprehension over the cached workspaces and their links: one
\* DiscoveredServiceLink for every link whose issuer is the service.
found_links(ws, sid) ==
    Flatten([i \in 1..Len(WorkspaceOrder) |->
               LET w == WorkspaceOrder[i]
                   own == SelectSeq(ws[w].services, LAMBDA l : l.issuer_id = sid)
               IN  [k \in 1..Len(own) |->
                      [workspace_id |-> w, service_id |-> own[k].audience_id,
                       context |-> own[k].context]]])

\* links_map.setdefault(link.service_id, []).append(link.workspace_id), as
\* the list of (audience, workspace ids) in the order of the dict.
RECURSIVE links_map(_, _)
links_map(found, acc) ==
    IF found = <<>> THEN acc
    ELSE LET l == Head(found)
             at == {i \in 1..Len(acc) : acc[i].service = l.service_id}
         IN  links_map(Tail(found),
                       IF at = {} THEN Append(acc, [service |-> l.service_id, workspaces |-> <<l.workspace_id>>])
                       ELSE [acc EXCEPT ![CHOOSE i \in at : TRUE].workspaces = Append(@, l.workspace_id)])

\* The get_service / get_workspace calls of the loop over links_map, in order.
Lookups(groups) ==
    Flatten([i \in 1..Len(groups) |->
               <<[t |-> "service", id |-> groups[i].service]>>
               \o [k \in 1..Len(groups[i].workspaces) |-> [t |-> "workspace", id |-> groups[i].workspaces[k]]]])

\* The request arrives; get_service begins with a reload of the services.
discovery_start(h, id, key) ==
    /\ hs[h].pc = "idle"
    /\ CanRun(h)
    /\ reqs < MaxReq
    /\ reqs' = reqs + 1
    /\ LET rec == [Idle EXCEPT !.op = "discovery", !.t = "service", !.id = id, !.key = key,
                               !.conc = InFlight]
       IN  hs' = [hs EXCEPT ![h] = IF key = NoKey THEN Done(rec, "NO_API_KEY", NoVer)
                                   ELSE CallReload(rec, "service", "dsc_got_svc")]
    /\ UNCHANGED <<backend, memory, nextVer, keyring>>

\* get_service returned (or 404); validate_item_api_key; reload_workspaces.
discovery_authenticate(h) ==
    LET svc == cache[ProcOf(h)]["service"][hs[h].id]
        v == validate_item_api_key(hs[h].key, svc, "service")
    IN  /\ hs[h].pc = "dsc_got_svc"
        /\ hs' = [hs EXCEPT ![h] =
                    IF svc = Absent THEN Done(hs[h], "NOT_FOUND", NoVer)
                    ELSE IF v # "OK" THEN Done(hs[h], v, NoVer)
                    ELSE CallReload(hs[h], "workspace", "dsc_scan")]
        /\ UNCHANGED <<backend, memory, nextVer, reqs, keyring>>

\* The response, or the next get_service / get_workspace of the loop.
DiscoveryNext(rec) ==
    IF rec.lookups = <<>>
    THEN [Done(rec, "OK", NoVer) EXCEPT !.groups = rec.groups]
    ELSE CallReload(rec, Head(rec.lookups).t, "dsc_lookup")

\* found_links and links_map are computed from the cached workspaces.
discovery_scan(h) ==
    LET g == links_map(found_links(cache[ProcOf(h)]["workspace"], hs[h].id), <<>>)
    IN  /\ hs[h].pc = "dsc_scan"
        /\ hs' = [hs EXCEPT ![h] = DiscoveryNext([hs[h] EXCEPT !.groups = g, !.lookups = Lookups(g)])]
        /\ UNCHANGED <<backend, memory, nextVer, reqs, keyring>>

\* get_service(s_id) / get_workspace(w_id) returned the cached object, or 404.
discovery_lookup(h) ==
    LET q == Head(hs[h].lookups)
    IN  /\ hs[h].pc = "dsc_lookup"
        /\ hs' = [hs EXCEPT ![h] =
                    IF cache[ProcOf(h)][q.t][q.id] = Absent THEN Done(hs[h], "NOT_FOUND", NoVer)
                    ELSE DiscoveryNext([hs[h] EXCEPT !.lookups = Tail(@)])]
        /\ UNCHANGED <<backend, memory, nextVer, reqs, keyring>>

\* ------------------------------------------------------ system.py: diagnostics
\* The request arrives (no key is asked for); is_available is awaited.
diagnostics_start(h) ==
    /\ hs[h].pc = "idle"
    /\ CanRun(h)
    /\ Booted(ProcOf(h))
    /\ reqs < MaxReq
    /\ reqs' = reqs + 1
    /\ hs' = [hs EXCEPT ![h] = [Idle EXCEPT !.op = "diagnostics", !.conc = InFlight,
                                            !.pc = "diag_ping_call"]]
    /\ UNCHANGED <<backend, memory, nextVer, keyring>>

\* The backend answers the PING, or does not.
diagnostics_is_available(h) ==
    /\ hs[h].pc = "diag_ping_call"
    /\ hs' = [hs EXCEPT ![h].ok = redisUp, ![h].pc = "diag_ping_ret"]
    /\ UNCHANGED <<backend, memory, nextVer, reqs, keyring>>

\* The response: jwks_keys = len(RSA_KEYS), current_kid = CURRENT_KID, as
\* system.py sees the two names.
diagnostics_finish(h) ==
    /\ hs[h].pc = "diag_ping_ret"
    /\ CanRun(h)
    /\ hs' = [hs EXCEPT ![h] = [Done(hs[h], "OK", NoVer) EXCEPT !.n = Cardinality(system_RSA_KEYS),
                                                                !.current = system_CURRENT_KID]]
    /\ UNCHANGED <<backend, memory, nextVer, reqs, keyring>>

\* ------------------------------------------------------ token.py: verify_token
\* A decode that still accepts a token at the instant of its exp.
Decode_accepts_at_exp(tok) ==
    IF tok.sig[2] # generate_rsa_keypair(tok.kid)[1][2] THEN "INVALID_TOKEN"
    ELSE IF tok.payload["exp"] < now THEN "TOKEN_EXPIRED"
    ELSE "OK"

\* jwt.decode with the public key of the token's kid: signature, then expiry.
Decode(tok) ==
    IF tok.sig[2] # generate_rsa_keypair(tok.kid)[1][2] THEN "INVALID_TOKEN"
    ELSE IF tok.payload["exp"] <= now THEN "TOKEN_EXPIRED"
    ELSE "OK"

\* A verify that would look the token's link up again.
Verified_rechecks_link(rec, tok) ==
    LET l == ServiceLink(tok.payload["iss"], tok.payload["aud"], NoDict)
        r == IF LinkStored(l, tok.payload["sub"]) THEN Decode(tok) ELSE "UNLINKED"
    IN  [Done(rec, r, NoVer) EXCEPT !.token = tok,
                                    !.payload = IF r = "OK" THEN tok.payload ELSE NoDict]

Verified(rec, tok) ==
    [Done(rec, Decode(tok), NoVer) EXCEPT !.token = tok,
                                          !.payload = IF Decode(tok) = "OK" THEN tok.payload ELSE NoDict]

\* A verify that answers an unknown kid from the in-memory ring alone.
verify_start_without_reload(h, tok) ==
    LET rec == [Idle EXCEPT !.op = "verify", !.token = tok, !.conc = InFlight]
    IN  /\ hs[h].pc = "idle"
        /\ CanRun(h)
        /\ Booted(ProcOf(h))
        /\ reqs < MaxReq
        /\ reqs' = reqs + 1
        /\ hs' = [hs EXCEPT ![h] = IF tok.kid \in RSA_KEYS[ProcOf(h)]
                                   THEN Verified(rec, tok)
                                   ELSE [Done(rec, "UNKNOWN_KID", NoVer) EXCEPT !.token = tok]]
        /\ UNCHANGED <<backend, memory, nextVer, keyring>>

\* The request arrives with a token; a kid outside the ring makes the
\* handler call load_rsa_keys once.
verify_start(h, tok) ==
    LET rec == [Idle EXCEPT !.op = "verify", !.token = tok, !.conc = InFlight]
    IN  /\ hs[h].pc = "idle"
        /\ CanRun(h)
        /\ Booted(ProcOf(h))
        /\ reqs < MaxReq
        /\ reqs' = reqs + 1
        /\ hs' = [hs EXCEPT ![h] = IF tok.kid \in RSA_KEYS[ProcOf(h)]
                                   THEN Verified(rec, tok)
                                   ELSE CallLoad([rec EXCEPT !.token = tok], "ver_reloaded")]
        /\ UNCHANGED <<backend, memory, nextVer, keyring>>

\* After the reload: UNKNOWN_KID, or the decode.
verify_reloaded(h) ==
    /\ hs[h].pc = "ver_reloaded"
    /\ hs' = [hs EXCEPT ![h] = IF hs[h].token.kid \notin RSA_KEYS[ProcOf(h)]
                               THEN [Done(hs[h], "UNKNOWN_KID", NoVer) EXCEPT !.token = hs[h].token]
                               ELSE Verified(hs[h], hs[h].token)]
    /\ UNCHANGED <<backend, memory, nextVer, reqs, keyring>>

\* Time passes.
Tick ==
    /\ now < MaxNow
    /\ now' = now + 1
    /\ UNCHANGED <<backend, memory, half, rlog, hs, nextVer, reqs, rsaBlob, RSA_KEYS, CURRENT_KID, usedKids, lastRot, minted>>

\* ------------------------------------------------------- the initial store
InfoName == [k \in {"name"} |-> 1]
KeyOf(id) == <<"gen", CASE id = "A" -> 1 [] id = "B" -> 2 [] id = "W1" -> 3 [] OTHER -> 0>>

\* The counters of the rate limiter: one per (bucket, key, window).
RlKeys == {"issue", "admin"} \X {KeyOf("A"), KeyOf("B"), <<"admin", 1>>} \X (0..MaxNow)
\* A key without a time to live (TTL answers -1).
NoExp == -1
NoCounter == [count |-> 0, exp |-> NoExp]

\* Services A and B and workspace W1 have been created, in this order, and
\* every process has loaded them (lifespan).
StoreOf(links, infoA) ==
    [t \in Types |-> [id \in Ids(t) |->
        CASE id = "A" -> Entity(1, KeyOf("A"), infoA, NoDict, <<>>)
          [] id = "B" -> Entity(2, KeyOf("B"), NoDict, NoDict, <<>>)
          [] id = "W1" -> Entity(3, KeyOf("W1"), NoDict, NoDict, links)
          [] OTHER -> Absent]]

InitEntities(links, infoA) ==
    /\ redisUp = TRUE
    /\ data = [t \in Types |-> [id \in Ids(t) |->
                 IF StoreOf(links, infoA)[t][id] = Absent THEN NoBlob
                 ELSE Encrypt(StoreOf(links, infoA)[t][id])]]
    /\ verKey = [t \in Types |-> [id \in Ids(t) |-> StoreOf(links, infoA)[t][id].version]]
    /\ sysVer = [t \in Types |-> IF t = "service" THEN 2 ELSE 3]
    /\ cache = [p \in Procs |-> StoreOf(links, infoA)]
    /\ cacheVer = [p \in Procs |-> [t \in Types |-> IF t = "service" THEN 2 ELSE 3]]
    /\ lock = [p \in Procs |-> [t \in Types |-> "none"]]
    /\ hs = [h \in Handlers |-> Idle]
    /\ nextVer = 4
    /\ reqs = 0
    /\ lastRot = [p \in Procs |-> NoKid]
    /\ now = 0
    /\ minted = {}
    /\ rl = [k \in RlKeys |-> NoCounter]
    /\ half = FALSE
    /\ rlog = [k \in RlKeys \X {FALSE, TRUE} |-> 0]
    /\ commits = {}
    /\ events = {}
    /\ auditLog = {}
    /\ tried = {}
    /\ subs = {}
    /\ inbox = [p \in Procs |-> 0]

\* Every process has loaded the ring {k2} that the first of them persisted.
InitRingLoaded ==
    /\ rsaBlob = Str({"k2"})
    /\ RSA_KEYS = [p \in Procs |-> {"k2"}]
    /\ CURRENT_KID = [p \in Procs |-> "k2"]
    /\ usedKids = {"k2"}

\* No process has started yet and nothing is stored under rsa:keys.
InitRingEmpty ==
    /\ rsaBlob = NoRing
    /\ RSA_KEYS = [p \in Procs |-> {}]
    /\ CURRENT_KID = [p \in Procs |-> NoKid]
    /\ usedKids = {}

InitStore(links) == InitEntities(links, NoDict) /\ InitRingLoaded

\* The reload sub-procedure, shared by every specification.
Reload(h) ==
    \/ rl_get_system_version(h)
    \/ rl_first_check(h)
    \/ rl_lock_acquired(h)
    \/ rl_second_check(h)
    \/ rl_search_ids(h)
    \/ rl_get_items(h)
    \/ rl_swap(h)

\* The reload where no two handlers of a process reload one type at a time.
ReloadUncontended(h) ==
    \/ rl_get_system_version(h)
    \/ rl_first_check(h)
    \/ rl_second_check(h)
    \/ rl_search_ids(h)
    \/ rl_get_items(h)
    \/ rl_swap(h)

\* --------------------------------- SpecOCC: racing updates of one service
InitOCC == InitStore(<<>>)

NextOCC ==
    \E h \in Handlers :
        \/ \E op \in {"update_info", "rekey"} :
              update_start(h, op, "service", "A", IF op = "rekey" THEN NoDict ELSE InfoName,
                           1, <<"admin", 1>>)
        \/ Reload(h)
        \/ update_got(h)
        \/ update_get_item(h)
        \/ update_check(h)
        \/ update_save_item(h)
        \/ update_finish(h)
        \/ AfterCommit(h)
        \/ Return(h)

SpecOCC == InitOCC /\ [][NextOCC]_vars

\* C1: two updates of one entity that both sent If-Match v0 and overlapped
\* in time never both succeed (at most one winner per round).
C1_AtMostOneWinner ==
    \A h, g \in Handlers :
        (/\ h # g
         /\ hs[h].pc = "done" /\ hs[g].pc = "done"
         /\ hs[h].t = hs[g].t /\ hs[h].id = hs[g].id
         /\ hs[h].if_match # NoVer /\ hs[h].if_match = hs[g].if_match
         /\ h \in hs[g].conc
         /\ hs[h].result = "OK")
        => hs[g].result # "OK"

\* ------------------- SpecGate: issuance against unlink and create in two processes
LinkAB == ServiceLink("A", "B", NoDict)
InitGate == InitStore(<<LinkAB>>)

NextGate ==
    \E h \in Handlers :
        \/ /\ h = "h3"
           /\ link_start(h, "W1", "unlink-service", LinkAB, NoVer, <<"admin", 1>>)
        \/ /\ h = "h1"
           /\ create_start(h, "workspace", "W2", NoKey, <<>>, <<"admin", 1>>)
        \/ /\ h \in {"h1", "h2"}
           /\ issue_start(h, "A", "B", "W1", NoDict, KeyOf("A"))
        \/ Reload(h)
        \/ link_got_workspace(h)
        \/ link_checks(h)
        \/ link_get_item(h)
        \/ link_apply(h)
        \/ create_exists(h)
        \/ create_check(h)
        \/ update_save_item(h)
        \/ update_finish(h)
        \/ load_is_available(h)
        \/ load_after_ping(h)
        \/ load_get_raw(h)
        \/ load_parse(h)
        \/ issue_loaded(h)
        \/ issue_reloaded(h)
        \/ issue_validate(h)
        \/ issue_authenticate(h)
        \/ issue_mint(h)
        \/ AfterCommit(h)
        \/ Return(h)

SpecGate == InitGate /\ [][NextGate]_vars

\* C2: whenever issue_token returns a token for (iss, aud, sub), the link
\* (iss, aud) is stored in workspace sub at the moment of issuance or was
\* stored at some moment since the request arrived.
C2_TokenGating ==
    [][\A h \in Handlers :
          (hs[h].pc = "iss_got_ws" /\ hs'[h].pc = "done" /\ hs'[h].result = "OK")
          => (hs[h].link0 \/ LinkStored(hs[h].link, hs[h].sub))]_vars

\* ------------------------ SpecLinks: link changes racing a service delete
CtxRole == [k \in {"role"} |-> "reader"]
LinkInputs == {LinkAB, ServiceLink("A", "A", NoDict)}
InitLinks == InitStore(<<>>)

DeleteService(h) ==
    \/ delete_service_got(h)
    \/ delete_service_get_item(h)
    \/ delete_service_check(h)
    \/ delete_service_snapshot(h)
    \/ delete_service_loop(h)
    \/ delete_service_save_item(h)
    \/ delete_service_saved(h)
    \/ delete_service_delete_item(h)
    \/ delete_service_finish(h)

LinkService(h) ==
    \/ link_got_workspace(h)
    \/ link_checks(h)
    \/ link_get_item(h)
    \/ link_apply(h)
    \/ update_save_item(h)
    \/ update_finish(h)

NextLinks ==
    \E h \in Handlers :
        \/ /\ h = "h1"
           /\ delete_service_start(h, "B", <<"admin", 1>>)
        \/ /\ h = "h2"
           /\ \/ \E l \in LinkInputs : link_start(h, "W1", "link-service", l, NoVer, <<"admin", 1>>)
              \/ link_start(h, "W1", "unlink-service", LinkAB, NoVer, <<"admin", 1>>)
        \/ /\ h = "h3"
           /\ link_start(h, "W1", "link-service", ServiceLink("A", "B", CtxRole), NoVer, <<"admin", 1>>)
        \/ Reload(h)
        \/ DeleteService(h)
        \/ LinkService(h)
        \/ AfterCommit(h)
        \/ Return(h)

SpecLinks == InitLinks /\ [][NextLinks]_vars

\* The links a stored workspace holds.
StoredLinks(w) == IF data["workspace"][w] = NoBlob THEN <<>> ELSE Decrypt(data["workspace"][w]).services

\* C3: once Delete(service S) has returned successfully, no stored workspace
\* holds a link whose issuer_id or audience_id is S.
C3_ReferentialIntegrity ==
    \A h \in Handlers :
        (hs[h].pc = "done" /\ hs[h].op = "delete_service" /\ hs[h].result = "OK")
        => \A w \in Workspaces : \A i \in 1..Len(StoredLinks(w)) :
              /\ StoredLinks(w)[i].issuer_id # hs[h].id
              /\ StoredLinks(w)[i].audience_id # hs[h].id

\* A link list without a self-link and without two links of one pair.
WellFormedLinks(s) ==
    /\ \A i \in 1..Len(s) : s[i].issuer_id # s[i].audience_id
    /\ \A i, j \in 1..Len(s) :
          (s[i].issuer_id = s[j].issuer_id /\ s[i].audience_id = s[j].audience_id) => i = j

\* C4: under link-service and unlink-service requests, successful or failing,
\* sequential or concurrent, every workspace (stored, cached, or held by a
\* handler) has no two links with one (issuer_id, audience_id) pair and no
\* link with issuer_id = audience_id.
C4_LinkUniqueness ==
    /\ \A w \in Workspaces : WellFormedLinks(StoredLinks(w))
    /\ \A p \in Procs : \A w \in Workspaces : WellFormedLinks(cache[p]["workspace"][w].services)
    /\ \A h \in Handlers : WellFormedLinks(hs[h].val.services) /\ WellFormedLinks(hs[h].pend.services)

\* C4 witness: a link is stored, a request for the same pair with another
\* context was rejected as ALREADY_LINKED and a self-link as BAD_LINK.
C4_Witness ==
    /\ Len(StoredLinks("W1")) = 1
    /\ \E h, g \in Handlers :
          /\ hs[h].pc = "done" /\ hs[h].op = "link_service" /\ hs[h].result = "ALREADY_LINKED"
          /\ hs[h].link.context # StoredLinks("W1")[1].context
          /\ hs[g].pc = "done" /\ hs[g].op = "link_service" /\ hs[g].result = "BAD_LINK"

\* ----------------------- SpecAuth: who may issue, and whose key is whose
InitAuth == InitStore(<<LinkAB>>)
CallerKeys == {KeyOf("A"), <<"admin", 1>>, KeyOf("B")}

LoadKeys(h) ==
    \/ load_is_available(h)
    \/ load_after_ping(h)
    \/ load_get_raw(h)
    \/ load_parse(h)

IssueToken(h) ==
    \/ issue_loaded(h)
    \/ issue_reloaded(h)
    \/ issue_validate(h)
    \/ issue_authenticate(h)
    \/ issue_mint(h)

NextAuth ==
    \E h \in Handlers :
        \/ /\ h = "h1"
           /\ \E aud \in {"B", "C"}, key \in CallerKeys : issue_start(h, "A", aud, "W1", NoDict, key)
        \/ /\ h = "h2"
           /\ issue_start(h, "A", "B", "W1", NoDict, KeyOf("A"))
        \/ /\ h = "h3"
           /\ \E bkey \in {NoKey, KeyOf("A")} : create_start(h, "service", "C", bkey, <<>>, <<"admin", 1>>)
        \/ Reload(h)
        \/ create_exists(h)
        \/ create_check(h)
        \/ update_save_item(h)
        \/ update_finish(h)
        \/ LoadKeys(h)
        \/ IssueToken(h)
        \/ AfterCommit(h)
        \/ Return(h)

SpecAuth == InitAuth /\ [][NextAuth]_vars

\* The api_key of the stored service.
StoredKey(id) == IF data["service"][id] = NoBlob THEN NoKey ELSE Decrypt(data["service"][id]).api_key

\* C5: issuance for service S succeeds only when the caller's key is S's own
\* api_key; a request with an admin key or any other key is rejected with
\* INVALID_ENTITY_KEY and gets no token.
C5_StrictServiceKey ==
    \A h \in Handlers :
        (hs[h].pc = "done" /\ hs[h].op = "issue")
        => /\ hs[h].result = "OK" => hs[h].key = StoredKey(hs[h].id)
           /\ hs[h].result # "OK" => hs[h].token = NoToken
           /\ hs[h].key # StoredKey(hs[h].id) => hs[h].result = "INVALID_ENTITY_KEY"

\* C6: no key is accepted by the authentication of token issuance as the key
\* of two distinct services.
C6_KeyOfOneService ==
    \A p \in Procs : \A s1, s2 \in Services :
        (s1 # s2 /\ cache[p]["service"][s1] # Absent /\ cache[p]["service"][s2] # Absent)
        => validate_item_api_key(cache[p]["service"][s1].api_key, cache[p]["service"][s2], "service") # "OK"

\* -------------------------- SpecKeys: the key ring of two processes
TtlInfo == [k \in {"token_ttl_min"} |-> 1]
InitKeys == InitEntities(<<LinkAB>>, TtlInfo) /\ InitRingEmpty

NextKeys ==
    \/ Tick
    \/ \E h \in Handlers :
        \/ /\ h \in {"h1", "h3"}
           /\ boot_start(h)
        \/ boot_finish(h)
        \/ /\ h = "h1"
           /\ issue_start(h, "A", "B", "W1", NoDict, KeyOf("A"))
        \/ /\ h \in {"h1", "h3"}
           /\ rotate_start(h, <<"admin", 1>>)
        \/ /\ h = "h3"
           /\ \E tok \in minted : verify_start(h, tok)
        \/ verify_reloaded(h)
        \/ LoadKeys(h)
        \/ ring_set_raw(h)
        \/ load_return(h)
        \/ rotate_is_available(h)
        \/ rotate_after_ping(h)
        \/ rotate_finish(h)
        \/ rl_get_system_version(h)
        \/ rl_first_check(h)
        \/ IssueToken(h)
        \/ Return(h)

SpecKeys == InitKeys /\ [][NextKeys]_vars

Rotating(p) == \E g \in Handlers : ProcOf(g) = p /\ hs[g].op = "rotate" /\ hs[g].pc # "done"

\* C7: once rotate-keys has returned kid k2 in a process, every token that
\* process mints while no further rotation is under way carries header kid
\* k2 and is signed with k2's private key.
C7_RotatedKidIsCurrent ==
    [][\A h \in Handlers :
          (/\ hs[h].pc = "iss_got_ws" /\ hs'[h].pc = "done" /\ hs'[h].result = "OK"
           /\ lastRot[ProcOf(h)] # NoKid /\ ~Rotating(ProcOf(h)))
          => /\ hs'[h].token.kid = lastRot[ProcOf(h)]
             /\ hs'[h].token.sig = generate_rsa_keypair(lastRot[ProcOf(h)])[2]]_vars

\* C8: the kid of a minted, unexpired token is never removed from the
\* persisted ring nor from the in-memory ring of a process that holds it.
C8_KidsNeverRemoved ==
    [][\A tok \in minted :
          tok.payload["exp"] > now
          => /\ tok.kid \in Eval(rsaBlob) => tok.kid \in Eval(rsaBlob')
             /\ \A p \in Procs : tok.kid \in RSA_KEYS[p] => tok.kid \in RSA_KEYS'[p]]_vars

\* C9: a verify of a minted token answers with the token's claims (the
\* payload it was minted with, plus exp) unless the token has expired.
C9_MintVerifyRoundTrip ==
    \A h \in Handlers :
        (hs[h].pc = "done" /\ hs[h].op = "verify")
        => \/ hs[h].result = "OK" /\ hs[h].payload = hs[h].token.payload
           \/ hs[h].result = "TOKEN_EXPIRED" /\ hs[h].token.payload["exp"] <= now

\* ------------------- SpecClaims: claim composition over link contexts
ContextInputs == {NoDict, CtxRole, [k \in {"iss"} |-> "B"],
                  [k \in {"aud", "sub"} |-> IF k = "aud" THEN "A" ELSE "W2"]}
ClaimInputs == {NoDict, [k \in {"role"} |-> "writer"],
                [k \in {"iss", "team"} |-> IF k = "iss" THEN "B" ELSE "x"]}

\* The stored link A -> B of W1 carries one of the contexts.
InitClaims == \E c \in ContextInputs : InitStore(<<ServiceLink("A", "B", c)>>)

NextClaims ==
    \E h \in Handlers :
        \/ /\ h = "h1"
           /\ \E c \in ClaimInputs : issue_start(h, "A", "B", "W1", c, KeyOf("A"))
        \/ LoadKeys(h)
        \/ rl_get_system_version(h)
        \/ rl_first_check(h)
        \/ IssueToken(h)
        \/ Return(h)

SpecClaims == InitClaims /\ [][NextClaims]_vars

\* C10: in every token issue_token returns for path service_id and body
\* (aud, sub), the claims iss, aud and sub are service_id, aud and sub.
C10_ReservedClaims ==
    \A h \in Handlers :
        (hs[h].pc = "done" /\ hs[h].op = "issue" /\ hs[h].result = "OK")
        => /\ hs[h].token.payload["iss"] = hs[h].id
           /\ hs[h].token.payload["aud"] = hs[h].link.audience_id
           /\ hs[h].token.payload["sub"] = hs[h].sub

\* ------------------------------------------------ the backend's availability
\* The connection to the backend is lost: every command raises from now on.
Outage ==
    /\ redisUp
    /\ redisUp' = FALSE
    /\ UNCHANGED <<data, verKey, sysVer, rl, journal, memory, hs, nextVer, reqs, keyring>>

\* The backend answers again; what it stored is intact.
Recover ==
    /\ ~redisUp
    /\ redisUp' = TRUE
    /\ UNCHANGED <<data, verKey, sysVer, rl, journal, memory, hs, nextVer, reqs, keyring>>

\* ------------------------- get_service_by_id / get_workspace_by_id
\* The request arrives: get_header_api_key, then get_service / get_workspace
\* begins with a reload.
get_start(h, t, id, key) ==
    /\ hs[h].pc = "idle"
    /\ CanRun(h)
    /\ reqs < MaxReq
    /\ reqs' = reqs + 1
    /\ LET rec == [Idle EXCEPT !.op = "get", !.t = t, !.id = id, !.key = key, !.conc = InFlight,
                               !.n = reqs + 1]
       IN  hs' = [hs EXCEPT ![h] = IF key = NoKey THEN Done(rec, "NO_API_KEY", NoVer)
                                   ELSE CallReload(rec, t, "get_got")]
    /\ UNCHANGED <<backend, memory, nextVer, keyring>>

\* 404 when the id is not in the cached map; validate_item_api_key; the
\* response carries the cached entity.
get_got(h) ==
    LET e == cache[ProcOf(h)][hs[h].t][hs[h].id]
        r == validate_item_api_key(hs[h].key, e, hs[h].t)
    IN  /\ hs[h].pc = "get_got"
        /\ hs' = [hs EXCEPT ![h] =
                    IF e = Absent THEN Done(hs[h], "NOT_FOUND", NoVer)
                    ELSE IF r # "OK" THEN Done(hs[h], r, NoVer)
                    ELSE [Done(hs[h], "OK", e.version) EXCEPT !.val = e, !.n = hs[h].n]]
        /\ UNCHANGED <<backend, memory, nextVer, reqs, keyring>>

\* --------------------- SpecOutage: requests around the loss of the backend
InitOutage == InitStore(<<LinkAB>>)

Mutations == UpdateOps \cup {"create", "link_service", "delete_service"}
WriteCalls == {"upd_save_call", "dsv_save_call", "dsv_del_call"}
WriteRets == {"upd_save_ret", "dsv_save_ret", "dsv_del_ret"}

NextOutage ==
    \/ Outage
    \/ \E h \in Handlers :
        \/ /\ h = "h2"
           /\ \/ get_start(h, "service", "A", KeyOf("A"))
              \/ update_start(h, "rekey", "service", "A", NoDict, NoVer, <<"admin", 1>>)
              \/ create_start(h, "service", "C", NoKey, <<>>, <<"admin", 1>>)
        \/ /\ h = "h3"
           /\ \/ link_start(h, "W1", "unlink-service", LinkAB, NoVer, <<"admin", 1>>)
              \/ delete_service_start(h, "B", <<"admin", 1>>)
        \/ get_got(h)
        \/ ReloadUncontended(h)
        \/ update_got(h)
        \/ update_get_item(h)
        \/ update_check(h)
        \/ create_exists(h)
        \/ create_check(h)
        \/ LinkService(h)
        \/ DeleteService(h)
        \/ AfterCommit(h)
        \/ Return(h)

SpecOutage == InitOutage /\ [][NextOutage]_vars

\* C11: a reload_*_if_needed that finds the backend unavailable (its stamp
\* read came back empty) leaves the cached map and the cached stamp of that
\* type as they were, and a Get that ends during the outage for an entity
\* that is stored and was cached answers with the entity.
C11_ReloadToleratesOutage ==
    [][\A h \in Handlers :
          /\ (hs[h].pc = "rl_fetch_ret" /\ hs[h].reply = NoVer /\ hs'[h].pc # "rl_fetch_ret")
             => /\ cache'[ProcOf(h)][hs[h].rt] = cache[ProcOf(h)][hs[h].rt]
                /\ cacheVer'[ProcOf(h)][hs[h].rt] = cacheVer[ProcOf(h)][hs[h].rt]
          /\ (hs[h].pc = "get_got" /\ hs'[h].pc = "done" /\ ~redisUp
              /\ data[hs[h].t][hs[h].id] # NoBlob)
             => hs'[h].result # "NOT_FOUND"]_vars

\* C12: a mutation whose write pipeline was sent while the backend was
\* unavailable changes nothing in the backend and ends in an error: the
\* handler never answers with success.
C12_WritesFailLoudly ==
    [][\A h \in Handlers :
          /\ (hs[h].op \in Mutations /\ hs[h].pc \in WriteCalls /\ ~redisUp /\ hs'[h].pc # hs[h].pc)
             => /\ hs'[h].pc \in WriteRets /\ ~hs'[h].ok
                /\ UNCHANGED <<data, verKey, sysVer>>
          /\ (hs[h].op \in Mutations /\ hs[h].pc \in WriteRets /\ ~hs[h].ok /\ hs'[h].pc # hs[h].pc)
             => /\ hs'[h].pc = "done"
                /\ hs'[h].result \notin {"OK", "none"}]_vars

\* C12 witness: an update, a create and a delete have each been answered
\* with BACKEND_ERROR.
C12_Witness ==
    /\ ~redisUp
    /\ \E h \in Handlers : hs[h].pc = "done" /\ hs[h].op \in UpdateOps /\ hs[h].result = "BACKEND_ERROR"
    /\ \E h \in Handlers : hs[h].pc = "done" /\ hs[h].op \in {"link_service", "delete_service"}
                           /\ hs[h].result = "BACKEND_ERROR"

\* ------------------------------------------- security.py: check_rate_limit
\* Number of limiter calls in a run.
MaxCalls == 4
\* RL_TOKEN_ISSUE_LIMIT_PER_MIN, as the environment configures it.
RL_TOKEN_ISSUE_LIMIT_PER_MIN == 2
\* The clock in half minutes, and the 60 seconds of a window in half minutes.
time == 2 * now + (IF half THEN 1 ELSE 0)
window_sec == 2
MaxTime == 2 * MaxNow + 1

\* (a limit enforced one count late)
over_limit_late(count, limit) == count > limit + 1
\* if count > limit: raise 429
over_limit(count, limit) == count > limit

\* (the counter of /token/{service_id}/issue keyed by the service of the path)
issue_principal_by_path(api_key, service_id) == KeyOf(service_id)
\* check_rate_limit("issue", api_key, ...): the principal is the header key.
issue_principal(api_key, service_id) == api_key

\* rkey = f"rl:{bucket}:{key}:{window}" of a handler inside the limiter.
rkey(h) == <<hs[h].bucket, hs[h].principal, hs[h].at \div window_sec>>

\* The call returns (PASS: the counter admitted it; OPEN: admitted without
\* a counter) or raises; a PASS is entered in the log under the bucket, the
\* x-api-key of the request and its time stamp.
RateDone(h, res) ==
    /\ hs' = [hs EXCEPT ![h] = [Done(hs[h], res, NoVer) EXCEPT !.bucket = hs[h].bucket, !.at = hs[h].at]]
    /\ rlog' = IF res = "PASS"
               THEN [rlog EXCEPT ![<<<<hs[h].bucket, hs[h].key, hs[h].at \div window_sec>>,
                                       hs[h].at % window_sec = 1>>] = @ + 1]
               ELSE rlog

\* A handler reaches check_rate_limit(bucket, principal, limit, 60) for a
\* request with x-api-key key on the path of service sid; the limiter pings
\* the backend.
rate_start(h, bucket, principal, key, sid, limit) ==
    /\ hs[h].pc = "idle"
    /\ CanRun(h)
    /\ reqs < MaxCalls
    /\ reqs' = reqs + 1
    /\ hs' = [hs EXCEPT ![h] = [Idle EXCEPT !.op = "rate", !.pc = "rate_ping_call", !.bucket = bucket,
                                            !.principal = principal, !.key = key, !.id = sid,
                                            !.limit = limit]]
    /\ UNCHANGED <<backend, memory, nextVer, rsaBlob, RSA_KEYS, CURRENT_KID, usedKids, lastRot,
                   now, minted, half, rlog>>

\* The request of issue_token: bucket "issue", the header key, the configured limit.
issue_rate_start(h, key, sid) ==
    rate_start(h, "issue", issue_principal(key, sid), key, sid, RL_TOKEN_ISSUE_LIMIT_PER_MIN)

\* The backend answers the PING of is_available, or the ping raises.
rate_is_available(h) ==
    /\ hs[h].pc = "rate_ping_call"
    /\ hs' = [hs EXCEPT ![h].ok = redisUp, ![h].pc = "rate_ping_ret"]
    /\ UNCHANGED <<backend, memory, nextVer, reqs, keyring>>

\* if not available: return.  Otherwise window = int(time() // window_sec)
\* and INCR is sent.
rate_after_ping(h) ==
    /\ hs[h].pc = "rate_ping_ret"
    /\ CanRun(h)
    /\ IF hs[h].ok
       THEN /\ hs' = [hs EXCEPT ![h].at = time, ![h].pc = "rate_incr_call"]
            /\ UNCHANGED rlog
       ELSE RateDone(h, "OPEN")
    /\ UNCHANGED <<backend, memory, nextVer, reqs, rsaBlob, RSA_KEYS, CURRENT_KID, usedKids, lastRot,
                   now, minted, half>>

\* The backend executes INCR rkey, or the command raises.
rate_incr(h) ==
    /\ hs[h].pc = "rate_incr_call"
    /\ IF redisUp
       THEN /\ rl' = [rl EXCEPT ![rkey(h)].count = @ + 1]
            /\ hs' = [hs EXCEPT ![h].reply = rl[rkey(h)].count + 1, ![h].ok = TRUE, ![h].pc = "rate_incr_ret"]
       ELSE /\ hs' = [hs EXCEPT ![h].ok = FALSE, ![h].pc = "rate_incr_ret"]
            /\ UNCHANGED rl
    /\ UNCHANGED <<redisUp, data, verKey, sysVer, journal, memory, nextVer, reqs, keyring>>

\* The verdict once the count is known and the expiry, if any, has been set.
RateVerdict(h) ==
    IF over_limit(hs[h].reply, hs[h].limit)
    THEN /\ hs' = [hs EXCEPT ![h].pc = "rate_ttl_call"]
         /\ UNCHANGED rlog
    ELSE RateDone(h, "PASS")

\* if count == 1: EXPIRE is sent; otherwise the verdict.
rate_after_incr(h) ==
    /\ hs[h].pc = "rate_incr_ret"
    /\ CanRun(h)
    /\ IF ~hs[h].ok THEN RateDone(h, "BACKEND_ERROR")
       ELSE IF hs[h].reply = 1
       THEN /\ hs' = [hs EXCEPT ![h].pc = "rate_expire_call"]
            /\ UNCHANGED rlog
       ELSE RateVerdict(h)
    /\ UNCHANGED <<backend, memory, nextVer, reqs, rsaBlob, RSA_KEYS, CURRENT_KID, usedKids, lastRot,
                   now, minted, half>>

\* The backend executes EXPIRE rkey window_sec, or the command raises.
rate_expire(h) ==
    /\ hs[h].pc = "rate_expire_call"
    /\ IF redisUp
       THEN /\ rl' = [rl EXCEPT ![rkey(h)].exp = IF rl[rkey(h)].count = 0 THEN NoExp ELSE time + window_sec]
            /\ hs' = [hs EXCEPT ![h].ok = TRUE, ![h].pc = "rate_expire_ret"]
       ELSE /\ hs' = [hs EXCEPT ![h].ok = FALSE, ![h].pc = "rate_expire_ret"]
            /\ UNCHANGED rl
    /\ UNCHANGED <<redisUp, data, verKey, sysVer, journal, memory, nextVer, reqs, keyring>>

rate_after_expire(h) ==
    /\ hs[h].pc = "rate_expire_ret"
    /\ CanRun(h)
    /\ IF ~hs[h].ok THEN RateDone(h, "BACKEND_ERROR") ELSE RateVerdict(h)
    /\ UNCHANGED <<backend, memory, nextVer, reqs, rsaBlob, RSA_KEYS, CURRENT_KID, usedKids, lastRot,
                   now, minted, half>>

\* The backend answers TTL rkey, or the command raises.
rate_ttl(h) ==
    /\ hs[h].pc = "rate_ttl_call"
    /\ hs' = [hs EXCEPT ![h].ok = redisUp, ![h].pc = "rate_ttl_ret"]
    /\ UNCHANGED <<backend, memory, nextVer, reqs, keyring>>

\* raise HTTPException(429, RATE_LIMITED)
rate_limited(h) ==
    /\ hs[h].pc = "rate_ttl_ret"
    /\ CanRun(h)
    /\ RateDone(h, IF hs[h].ok THEN "RATE_LIMITED" ELSE "BACKEND_ERROR")
    /\ UNCHANGED <<backend, memory, nextVer, reqs, rsaBlob, RSA_KEYS, CURRENT_KID, usedKids, lastRot,
                   now, minted, half>>

CheckRateLimit(h) ==
    \/ rate_is_available(h)
    \/ rate_after_ping(h)
    \/ rate_incr(h)
    \/ rate_after_incr(h)
    \/ rate_expire(h)
    \/ rate_after_expire(h)
    \/ rate_ttl(h)
    \/ rate_limited(h)

\* Half a minute passes; the backend drops the counters whose time to live
\* has run out.  A command on its way to the backend arrives within the half
\* minute in which it was sent.
Tock ==
    /\ time < MaxTime
    /\ \A h \in Handlers : hs[h].pc # "rate_incr_call"
    /\ half' = ~half
    /\ now' = IF half THEN now + 1 ELSE now
    /\ rl' = [k \in RlKeys |-> IF rl[k].exp # NoExp /\ rl[k].exp <= time + 1 THEN NoCounter ELSE rl[k]]
    /\ UNCHANGED <<redisUp, data, verKey, sysVer, journal, memory, hs, nextVer, reqs, rsaBlob, RSA_KEYS,
                   CURRENT_KID, usedKids, lastRot, minted, rlog>>

\* ------------------------------- SpecRate: issue requests at the limiter
InitRate == InitStore(<<LinkAB>>)

NextRate ==
    \/ Tock
    \/ Outage
    \/ \E h \in Handlers :
        \/ /\ h = "h1"
           /\ \E sid \in {"A", "B"} : issue_rate_start(h, KeyOf("A"), sid)
        \/ /\ h = "h3"
           /\ \E key \in {KeyOf("A"), KeyOf("B")} : issue_rate_start(h, key, "B")
        \/ CheckRateLimit(h)
        \/ Return(h)

SpecRate == InitRate /\ [][NextRate]_vars

\* The calls of bucket b with x-api-key k, stamped at half minute t, that passed.
Passed(b, k, t) == rlog[<<<<b, k, t \div window_sec>>, t % window_sec = 1>>]
\* The limit the callers of a bucket pass to check_rate_limit.
LimitOf(b) == RL_TOKEN_ISSUE_LIMIT_PER_MIN
RlPrincipals == {KeyOf("A"), KeyOf("B"), <<"admin", 1>>}

C15_LimiterFailsOpen ==
    [][\A h \in Handlers :
          (hs[h].op = "rate" /\ ~hs[h].ok /\ hs[h].pc # "done" /\ hs'[h].pc = "done")
          => hs'[h].result = "OPEN"]_vars

\* ------------------- SpecRead: a Get after writes of two processes
InitRead == InitStore(<<>>)

NextRead ==
    \E h \in Handlers :
        \/ /\ h = "h3"
           /\ update_start(h, "update_info", "service", "A", InfoName, NoVer, <<"admin", 1>>)
        \/ /\ h = "h1"
           /\ update_start(h, "update_info", "service", "B", InfoName, NoVer, <<"admin", 1>>)
        \/ /\ h = "h2"
           /\ get_start(h, "service", "A", KeyOf("A"))
        \/ get_got(h)
        \/ Reload(h)
        \/ update_got(h)
        \/ update_get_item(h)
        \/ update_check(h)
        \/ update_save_item(h)
        \/ update_finish(h)
        \/ AfterCommit(h)
        \/ Return(h)

SpecRead == InitRead /\ [][NextRead]_vars

\* No request is being handled.
Quiescent == \A h \in Handlers : hs[h].pc \in {"idle", "done"}

\* C16: with the backend available and no change listener, a Get that
\* starts after every write has been committed and answered returns the
\* stored entity; and whenever no request is being handled and a process's
\* cached stamp for a type equals the backend's, its cached map of that type
\* equals the stored entities.
C16_ConsistencyOnRead ==
    /\ \A h \in Handlers :
          (hs[h].pc = "done" /\ hs[h].op = "get" /\ hs[h].result = "OK"
           /\ hs[h].conc = {} /\ hs[h].n = MaxReq)
          => hs[h].val = get_item(hs[h].t, hs[h].id)
    /\ Quiescent =>
          \A p \in Procs : \A t \in Types :
              cacheVer[p][t] = sysVer[t] => \A id \in Ids(t) : cache[p][t][id] = get_item(t, id)

\* -------- SpecCascade: a delete_service that arrives after other writes
InitCascade == \E links \in {<<>>, <<LinkAB>>} : InitStore(links)

\* p2 changes the links of W1 and p1 creates W2; once both have been
\* answered, DELETE /services/B arrives in p1 and runs alone.
NextCascade ==
    \E h \in Handlers :
        \/ /\ h = "h3"
           /\ \E a \in {"link-service", "unlink-service"} :
                 link_start(h, "W1", a, LinkAB, NoVer, <<"admin", 1>>)
        \/ /\ h = "h1"
           /\ create_start(h, "workspace", "W2", NoKey, <<>>, <<"admin", 1>>)
        \/ /\ h = "h2"
           /\ Quiescent
           /\ reqs = MaxReq - 1
           /\ delete_service_start(h, "B", <<"admin", 1>>)
        \/ ReloadUncontended(h)
        \/ LinkService(h)
        \/ create_exists(h)
        \/ create_check(h)
        \/ DeleteService(h)
        \/ AfterCommit(h)
        \/ Return(h)

SpecCascade == InitCascade /\ [][NextCascade]_vars

\* The stored workspace w holds a link that mentions service sid here / after the step.
StoredMentions(w, sid) == \E i \in 1..Len(StoredLinks(w)) : Mentions(StoredLinks(w)[i], sid)
StoredMentionsNext(w, sid) ==
    /\ data'["workspace"][w] # NoBlob
    /\ \E i \in 1..Len(Decrypt(data'["workspace"][w]).services) :
          Mentions(Decrypt(data'["workspace"][w]).services[i], sid)

\* C17: a Delete(service S) that runs alone rewrites a stored workspace only
\* if it held a link mentioning S, and then the workspace gets a new version
\* and the workspace stamp advances; when the delete answers with success no
\* stored workspace mentions S any more, S is gone and the service stamp is
\* the new one.
C17_CascadeFrame ==
    [][\A h \in Handlers :
          hs[h].op = "delete_service"
          => /\ \A w \in Workspaces :
                   data'["workspace"][w] # data["workspace"][w]
                   => /\ StoredMentions(w, hs[h].id)
                      /\ verKey'["workspace"][w] # verKey["workspace"][w]
                      /\ sysVer'["workspace"] # sysVer["workspace"]
             /\ (hs[h].pc # "done" /\ hs'[h].pc = "done" /\ hs'[h].result = "OK")
                => /\ \A w \in Workspaces : ~StoredMentionsNext(w, hs[h].id)
                   /\ data'["service"][hs[h].id] = NoBlob
                   /\ sysVer'["service"] = hs'[h].out]_vars

\* ------------------------ SpecCreate: creates of one id in two processes
InitCreate == InitStore(<<>>)

NextCreate ==
    \E h \in Handlers :
        \/ \E id \in {"B", "C"} : create_start(h, "service", id, NoKey, <<>>, <<"admin", 1>>)
        \/ create_exists(h)
        \/ create_check(h)
        \/ update_save_item(h)
        \/ update_finish(h)
        \/ AfterCommit(h)
        \/ Return(h)

SpecCreate == InitCreate /\ [][NextCreate]_vars

\* C18: the pipeline of a Create never replaces a stored blob (the stored
\* entity and its api_key stay as they are), a Create that found a blob
\* stored answers ALREADY_EXISTS, and of two Creates of one id and type that
\* overlapped in time at most one answers with success.
C18_CreateNeverOverwrites ==
    [][/\ \A h \in Handlers :
             /\ (hs[h].op = "create" /\ hs[h].pc = "upd_save_call" /\ hs'[h].pc = "upd_save_ret")
                => (data[hs[h].t][hs[h].id] = NoBlob \/ data'[hs[h].t][hs[h].id] = data[hs[h].t][hs[h].id])
             /\ (hs[h].op = "create" /\ hs[h].pc = "crt_get_ret" /\ hs[h].cur # Absent
                 /\ hs'[h].pc # "crt_get_ret")
                => (hs'[h].pc = "done" /\ hs'[h].result = "ALREADY_EXISTS")
       /\ \A h, g \in Handlers :
             (h # g /\ hs'[h].pc = "done" /\ hs'[g].pc = "done"
              /\ hs'[h].op = "create" /\ hs'[g].op = "create"
              /\ hs'[h].t = hs'[g].t /\ hs'[h].id = hs'[g].id /\ h \in hs'[g].conc)
             => ~(hs'[h].result = "OK" /\ hs'[g].result = "OK")]_vars

\* ------------------------------------------------- what the backend stores
\* The private PEMs a stored ring holds, readable without the cipher key.
PrivatePemsInClear(b) == IF b.cipher THEN {} ELSE {generate_rsa_keypair(k)[2] : k \in Eval(b)}

\* C19: every stored entity blob is ciphertext and no private RSA PEM is
\* stored in the clear, the serialized key ring under rsa:keys included.
C19_EncryptionAtRest ==
    /\ \A t \in Types : \A id \in Ids(t) : data[t][id] # NoBlob => data[t][id].cipher
    /\ PrivatePemsInClear(rsaBlob) = {}

\* ------------------------------ SpecGet: who may read a service
InitGet == InitStore(<<LinkAB>>)

NextGet ==
    \E h \in Handlers :
        \/ \E id \in {"A", "C"}, key \in CallerKeys \cup {NoKey} : get_start(h, "service", id, key)
        \/ get_got(h)
        \/ rl_get_system_version(h)
        \/ rl_first_check(h)
        \/ Return(h)

SpecGet == InitGet /\ [][NextGet]_vars

\* C20: GET /services/{id} of a stored service answers with the full
\* service when the key is a configured admin key or the service's own
\* api_key, and refuses every other key.
C20_GetServiceAuthorization ==
    \A h \in Handlers :
        (hs[h].pc = "done" /\ hs[h].op = "get" /\ hs[h].t = "service"
         /\ get_item("service", hs[h].id) # Absent)
        => IF hs[h].key \in AUTHBRIDGE_API_KEYS \/ hs[h].key = StoredKey(hs[h].id)
           THEN hs[h].result = "OK" /\ hs[h].val = get_item("service", hs[h].id)
           ELSE hs[h].result \in {"NO_API_KEY", "INVALID_ENTITY_KEY"}

\* ---------------- SpecVerify: verification after the trust graph has changed
InitVerify == InitStore(<<LinkAB>>)

NextVerify ==
    \E h \in Handlers :
        \/ /\ h = "h1"
           /\ issue_start(h, "A", "B", "W1", NoDict, KeyOf("A"))
        \/ /\ h = "h3"
           /\ minted # {}
           /\ \/ link_start(h, "W1", "unlink-service", LinkAB, NoVer, <<"admin", 1>>)
              \/ \E id \in {"A", "B"} : delete_service_start(h, id, <<"admin", 1>>)
              \/ delete_workspace_start(h, "W1", <<"admin", 1>>)
        \/ /\ h \in {"h2", "h3"}
           /\ \E tok \in minted : verify_start(h, tok)
        \/ LoadKeys(h)
        \/ ReloadUncontended(h)
        \/ IssueToken(h)
        \/ LinkService(h)
        \/ DeleteService(h)
        \/ DeleteWorkspace(h)
        \/ AfterCommit(h)
        \/ Return(h)

SpecVerify == InitVerify /\ [][NextVerify]_vars

\* C21: a verify of a minted (validly signed), unexpired token whose kid is
\* in the ring of the verifying process answers OK with the token's claims,
\* whatever has become of the link, the issuer, the audience or the
\* workspace the token names.
C21_VerifyIgnoresTrustGraph ==
    [][\A h \in Handlers :
          (/\ hs[h].pc # "done" /\ hs'[h].pc = "done" /\ hs'[h].op = "verify"
           /\ hs'[h].token \in minted
           /\ hs'[h].token.kid \in RSA_KEYS[ProcOf(h)]
           /\ hs'[h].token.payload["exp"] > now)
          => /\ hs'[h].result = "OK"
             /\ hs'[h].payload = hs'[h].token.payload]_vars

\* A verify answered OK although the workspace of the token is gone.
C21_Witness ==
    \E h \in Handlers :
        /\ hs[h].pc = "done" /\ hs[h].op = "verify" /\ hs[h].result = "OK"
        /\ data["workspace"][hs[h].token.payload["sub"]] = NoBlob

\* C22 (SpecKeys): a token minted for service A carries exp = mint time +
\* A's TTL; a verify answers OK only while now < exp, and a verify at or
\* after exp of a token whose kid is in the ring answers TOKEN_EXPIRED.
C22_ExpiryEnforced ==
    [][\A h \in Handlers :
          /\ (hs[h].pc = "iss_got_ws" /\ hs'[h].pc = "done" /\ hs'[h].result = "OK")
             => hs'[h].token.payload["exp"] = now + TtlInfo["token_ttl_min"]
          /\ (hs[h].pc # "done" /\ hs'[h].pc = "done" /\ hs'[h].op = "verify"
              /\ hs'[h].token \in minted)
             => /\ hs'[h].result = "OK" => hs'[h].token.payload["exp"] > now
                /\ (hs'[h].token.payload["exp"] <= now /\ hs'[h].token.kid \in RSA_KEYS[ProcOf(h)])
                   => hs'[h].result = "TOKEN_EXPIRED"]_vars

\* A verify at exp was answered TOKEN_EXPIRED.
C22_Witness ==
    \E h \in Handlers :
        /\ hs[h].pc = "done" /\ hs[h].op = "verify" /\ hs[h].result = "TOKEN_EXPIRED"
        /\ hs[h].token.payload["exp"] = now

\* C23 (SpecOutage): in every backend state an entity's data key exists iff
\* its version key exists and the version key holds the version inside the
\* blob; and the step that executes a save_item or delete_item leaves the
\* system stamp of the type equal to the version it wrote, together with
\* the entity's data and version key (both set, or both removed).
C23_AtomicEntityWrites ==
    /\ [](\A t \in Types : \A id \in Ids(t) :
            /\ data[t][id] # NoBlob <=> verKey[t][id] # NoVer
            /\ data[t][id] # NoBlob => Decrypt(data[t][id]).version = verKey[t][id])
    /\ [][\A e \in commits' \ commits :
            /\ sysVer'[e.type] = e.version
            /\ e.op = "updated" => /\ data'[e.type][e.id] # NoBlob
                                   /\ verKey'[e.type][e.id] = e.version
                                   /\ Decrypt(data'[e.type][e.id]).version = e.version
            /\ e.op = "deleted" => /\ data'[e.type][e.id] = NoBlob
                                   /\ verKey'[e.type][e.id] = NoVer]_vars

\* A save and a delete have both been executed.
C23_Witness ==
    /\ \E e \in commits : e.op = "updated" /\ verKey[e.type][e.id] = e.version
    /\ \E e \in commits : e.op = "deleted" /\ data[e.type][e.id] = NoBlob

\* C24 (SpecOutage): every event the channel holds, and every publish or
\* audit call made, is for a write the backend has executed (same op, type,
\* id and version), so a write that failed publishes nothing; and every
\* executed write has had its publish call and its audit call made, or the
\* handler that made the write is on its way to them.
C24_EventsFollowCommits ==
    /\ events \subseteq commits
    /\ auditLog \subseteq commits
    /\ \A c \in tried : c[2] \in commits
    /\ \A e \in commits :
          /\ \/ <<"publish", e>> \in tried
             \/ \E h \in Handlers : hs[h].pc = "pub_call" /\ hs[h].ev = e
          /\ \/ <<"audit", e>> \in tried
             \/ \E h \in Handlers : hs[h].pc \in {"pub_call", "aud_call"} /\ hs[h].ev = e

\* A handler has answered OK after its write was published and audited, and
\* another write failed and left no event.
C24_Witness ==
    /\ \E h \in Handlers : hs[h].pc = "done" /\ hs[h].result = "OK" /\ hs[h].out # NoVer
                           /\ \E e \in events \cap auditLog : e.version = hs[h].out
    /\ \E h \in Handlers : hs[h].pc = "done" /\ hs[h].result = "BACKEND_ERROR"

\* C25 (SpecOutage): the publish and audit calls change nothing of what is
\* stored and do not turn a committed write into a failure: a handler whose
\* last pipeline was executed answers OK with the version it wrote, also
\* when the publish or the audit call failed.
C25_PublishAuditFailuresSwallowed ==
    [][\A h \in Handlers :
          /\ (hs[h].pc \in {"pub_call", "aud_call"} /\ hs'[h].pc # hs[h].pc)
             => /\ UNCHANGED <<data, verKey, sysVer>>
                /\ hs'[h].ok
          /\ (hs[h].pc \in {"upd_save_ret", "dsv_del_ret"} /\ hs[h].ok /\ hs'[h].pc # hs[h].pc)
             => /\ hs'[h].pc = "done" /\ hs'[h].result = "OK"
                /\ hs'[h].out \in {e.version : e \in commits}]_vars

\* A mutation answered OK although neither its event nor its audit entry
\* was accepted; the entity is stored under the version it reported.
C25_Witness ==
    \E h \in Handlers :
        /\ hs[h].pc = "done" /\ hs[h].result = "OK" /\ hs[h].op = "rekey"
        /\ \E e \in commits \ (events \cup auditLog) : e.version = hs[h].out
        /\ verKey[hs[h].t][hs[h].id] = hs[h].out
        /\ sysVer[hs[h].t] = hs[h].out

\* ------------------------------------------------ main.py: _pubsub_listener
\* The coroutines that run the listener task of their process.
Listeners == {"h2", "h3"}

\* lifespan: asyncio.create_task(_pubsub_listener()); rm.is_available() is sent.
listen_start(h) ==
    /\ hs[h].pc = "idle"
    /\ CanRun(h)
    /\ hs' = [hs EXCEPT ![h] = [Idle EXCEPT !.op = "listen", !.pc = "lis_ping_call"]]
    /\ UNCHANGED <<backend, memory, nextVer, reqs, keyring>>

\* The backend answers the ping, or not.
listen_is_available(h) ==
    /\ hs[h].pc = "lis_ping_call"
    /\ hs' = [hs EXCEPT ![h].ok = redisUp, ![h].pc = "lis_ping_ret"]
    /\ UNCHANGED <<backend, memory, nextVer, reqs, keyring>>

\* "PubSub disabled" and return, or pubsub.subscribe is sent.
listen_after_ping(h) ==
    /\ hs[h].pc = "lis_ping_ret"
    /\ CanRun(h)
    /\ hs' = [hs EXCEPT ![h].pc = IF hs[h].ok THEN "lis_sub_call" ELSE "lis_ended"]
    /\ UNCHANGED <<backend, memory, nextVer, reqs, keyring>>

\* SUBSCRIBE: the channel registers the process and the task waits in
\* pubsub.listen(); when the command raises, the exception leaves the task.
listen_subscribe(h) ==
    /\ hs[h].pc = "lis_sub_call"
    /\ IF redisUp
       THEN /\ subs' = subs \cup {ProcOf(h)}
            /\ hs' = [hs EXCEPT ![h].pc = "lis_wait"]
       ELSE /\ hs' = [hs EXCEPT ![h].pc = "lis_ended"]
            /\ UNCHANGED subs
    /\ UNCHANGED <<redisUp, data, verKey, sysVer, rl, commits, events, auditLog, tried, inbox,
                   memory, nextVer, reqs, keyring>>

\* A message arrives: reload_services_if_needed begins.
listen_message(h) ==
    /\ hs[h].pc = "lis_wait"
    /\ CanRun(h)
    /\ ProcOf(h) \in subs
    /\ inbox[ProcOf(h)] > 0
    /\ inbox' = [inbox EXCEPT ![ProcOf(h)] = @ - 1]
    /\ hs' = [hs EXCEPT ![h] = CallReload(hs[h], "service", "lis_rl1")]
    /\ UNCHANGED <<redisUp, data, verKey, sysVer, rl, commits, events, auditLog, tried, subs,
                   memory, nextVer, reqs, keyring>>

\* reload_workspaces_if_needed begins.
listen_reloaded(h) ==
    /\ hs[h].pc = "lis_rl1"
    /\ hs' = [hs EXCEPT ![h] = CallReload(hs[h], "workspace", "lis_rl2")]
    /\ UNCHANGED <<backend, memory, nextVer, reqs, keyring>>

\* The message is processed; back to pubsub.listen().
listen_processed(h) ==
    /\ hs[h].pc = "lis_rl2"
    /\ hs' = [hs EXCEPT ![h].pc = "lis_wait"]
    /\ UNCHANGED <<backend, memory, nextVer, reqs, keyring>>

\* The subscription of process p drops: the connection is closed, the
\* channel forgets the subscriber and what it held for it.
Drop(p) ==
    /\ p \in subs
    /\ subs' = subs \ {p}
    /\ inbox' = [inbox EXCEPT ![p] = 0]
    /\ UNCHANGED <<redisUp, data, verKey, sysVer, rl, commits, events, auditLog, tried,
                   memory, hs, nextVer, reqs, keyring>>

\* pubsub.listen() raises ConnectionError: it is no CancelledError, so it
\* passes the except clause; the finally clause closes the pubsub object and
\* the task is over.
listen_dropped(h) ==
    /\ hs[h].pc = "lis_wait"
    /\ CanRun(h)
    /\ ProcOf(h) \notin subs
    /\ hs' = [hs EXCEPT ![h].pc = "lis_ended"]
    /\ UNCHANGED <<backend, memory, nextVer, reqs, keyring>>

Listen(h) ==
    \/ listen_is_available(h)
    \/ listen_after_ping(h)
    \/ listen_subscribe(h)
    \/ listen_message(h)
    \/ listen_reloaded(h)
    \/ listen_processed(h)
    \/ listen_dropped(h)

\* ------------------- SpecListen: the listeners, writes in p1 and a dropped subscription
InitListen == InitStore(<<>>)

NextListen ==
    \/ \E p \in Procs : Drop(p)
    \/ \E h \in Handlers :
        \/ /\ h \in Listeners
           /\ listen_start(h)
        \/ /\ h = "h1"
           /\ update_start(h, "update_info", "service", "A", InfoName, NoVer, <<"admin", 1>>)
        \/ Listen(h)
        \/ Reload(h)
        \/ update_got(h)
        \/ update_get_item(h)
        \/ update_check(h)
        \/ update_save_item(h)
        \/ update_finish(h)
        \/ AfterCommit(h)
        \/ Return(h)

\* Every step a coroutine can take is taken eventually (the event loop runs
\* every ready task, the backend answers every command).
SpecListen ==
    /\ InitListen
    /\ [][NextListen]_vars
    /\ \A h \in Handlers :
          WF_vars(Listen(h) \/ Reload(h) \/ update_got(h) \/ update_get_item(h) \/ update_check(h)
                  \/ update_save_item(h) \/ update_finish(h) \/ AfterCommit(h) \/ Return(h))

\* The listener of h has been subscribed and its subscription is gone.
Dropped(h) ==
    /\ hs[h].op = "listen"
    /\ hs[h].pc \notin {"lis_ping_call", "lis_ping_ret", "lis_sub_call"}
    /\ ProcOf(h) \notin subs

\* C26: whenever the subscription of a running listener has dropped, the
\* listener is subscribed again at some later time.
C26_ListenerResubscribes ==
    \A h \in Listeners : [](Dropped(h) => <>(ProcOf(h) \in subs))

\* ------------- SpecMono: one process, a reader's reload against two updates
InitMono == InitStore(<<>>)

NextMono ==
    \E h \in Handlers :
        \/ /\ h = "h1"
           /\ update_start(h, "update_info", "service", "A", InfoName, NoVer, <<"admin", 1>>)
        \/ /\ h = "h2"
           /\ get_start(h, "service", "A", KeyOf("A"))
        \/ get_got(h)
        \/ ReloadUncontended(h)
        \/ update_got(h)
        \/ update_get_item(h)
        \/ update_check(h)
        \/ update_save_item(h)
        \/ update_finish(h)
        \/ AfterCommit(h)
        \/ Return(h)

\* Every step a coroutine can take is taken eventually (the event loop runs
\* every ready task, the backend answers every command).
SpecMono ==
    /\ InitMono
    /\ [][NextMono]_vars
    /\ \A h \in Handlers :
          WF_vars(get_got(h) \/ ReloadUncontended(h) \/ update_got(h) \/ update_get_item(h)
                  \/ update_check(h) \/ update_save_item(h) \/ update_finish(h)
                  \/ AfterCommit(h) \/ Return(h))

\* The cache of services of p1 is in the state of stamp v: the stamp is v
\* and the map holds service A as written under v.
CacheAt(v) ==
    /\ cacheVer["p1"]["service"] = v
    /\ cache["p1"]["service"]["A"].version = v

\* C27: once the cached stamp of a type has been v and has moved on to
\* another stamp, the cache is never in the state of v again.
C27_MonotonicRefresh ==
    \A v \in 2..(MaxReq + 3) :
        [](cacheVer["p1"]["service"] = v
           => [](cacheVer["p1"]["service"] # v => []~CacheAt(v)))

\* ------------- SpecLock: readers of both types in p1 after a cascade in p2
InitLock == InitStore(<<LinkAB>>)

NextLock ==
    \E h \in Handlers :
        \/ /\ h = "h3"
           /\ delete_service_start(h, "B", <<"admin", 1>>)
        \/ /\ h \in {"h1", "h2"}
           /\ \/ get_start(h, "service", "A", KeyOf("A"))
              \/ get_start(h, "workspace", "W1", <<"admin", 1>>)
        \/ get_got(h)
        \/ Reload(h)
        \/ DeleteService(h)
        \/ AfterCommit(h)
        \/ Return(h)

SpecLock == InitLock /\ [][NextLock]_vars

\* The part of reload_*_if_needed inside `async with self._lock_*`.
CriticalLabels == {"rl_stamp2_call", "rl_stamp2_ret", "rl_scan_call", "rl_fetch_call", "rl_fetch_ret"}
InCritical(h, p, t) == ProcOf(h) = p /\ hs[h].rt = t /\ hs[h].pc \in CriticalLabels

\* C28: per process and type at most one coroutine is inside the critical
\* section, and it holds the lock of that type; a coroutine that finds the
\* backend stamp equal to the cached one under the lock returns without a
\* scan and leaves the cache alone; a coroutine waits for a lock only while
\* the lock of its own type is taken, whatever the state of the other lock.
C28_SerializedDoubleChecked ==
    /\ [](\A p \in Procs, t \in Types :
            /\ \A h, g \in Handlers : (InCritical(h, p, t) /\ InCritical(g, p, t)) => h = g
            /\ \A h \in Handlers : InCritical(h, p, t) => lock[p][t] = h
            /\ \A h \in Handlers : (ProcOf(h) = p /\ hs[h].rt = t /\ hs[h].pc = "rl_lock")
                                   => lock[p][t] # "none")
    /\ [][\A h \in Handlers :
            /\ (/\ hs[h].pc = "rl_stamp2_ret" /\ hs'[h].pc # hs[h].pc
                /\ hs[h].reply # NoVer /\ hs[h].reply = cacheVer[ProcOf(h)][hs[h].rt])
               => /\ hs'[h].pc = hs[h].ret
                  /\ UNCHANGED <<cache, cacheVer>>
                  /\ lock'[ProcOf(h)][hs[h].rt] # h
            /\ (hs[h].pc = "rl_stamp1_ret" /\ hs'[h].pc = "rl_lock")
               => lock[ProcOf(h)][hs[h].rt] \notin {"none", h}
            /\ (hs[h].pc = "rl_stamp1_ret" /\ hs'[h].pc \notin {"rl_stamp1_ret", "rl_lock", hs[h].ret})
               => lock'[ProcOf(h)][hs[h].rt] = h]_vars

\* Two coroutines of p1 refresh the two types at the same time.
C28_Witness ==
    /\ InCritical("h1", "p1", "service")
    /\ InCritical("h2", "p1", "workspace")

\* ------------- SpecPartial: a service delete with a cascade, and an outage
InitPartial == InitStore(<<LinkAB>>)

NextPartial ==
    \/ Outage
    \/ \E h \in Handlers :
        \/ /\ h = "h3"
           /\ delete_service_start(h, "B", <<"admin", 1>>)
        \/ /\ h = "h1"
           /\ get_start(h, "workspace", "W1", <<"admin", 1>>)
        \/ get_got(h)
        \/ ReloadUncontended(h)
        \/ DeleteService(h)
        \/ AfterCommit(h)
        \/ Return(h)

SpecPartial == InitPartial /\ [][NextPartial]_vars

\* C29: while service B is still stored (no delete of B has completed) and
\* no request is in flight, every workspace is stored with the links and the
\* version it had before the delete requests.
C29_NoPartialWrites ==
    (Quiescent /\ data["service"]["B"] # NoBlob)
    => \A w \in Workspaces :
          /\ StoredLinks(w) = StoreOf(<<LinkAB>>, NoDict)["workspace"][w].services
          /\ verKey["workspace"][w] = StoreOf(<<LinkAB>>, NoDict)["workspace"][w].version

\* ------------- SpecOrder: issue requests as A with keys that are not A's
InitOrder == InitStore(<<LinkAB>>)

NextOrder ==
    \E h \in Handlers :
        \/ /\ h \in {"h1", "h2"}
           /\ \E aud \in {"B", "C"}, sub \in Workspaces :
                 issue_start(h, "A", aud, sub, NoDict, KeyOf("B"))
        \/ /\ h = "h3"
           /\ issue_start(h, "A", "B", "W1", NoDict, KeyOf("A"))
        \/ rl_get_system_version(h)
        \/ rl_first_check(h)
        \/ LoadKeys(h)
        \/ IssueToken(h)
        \/ Return(h)

SpecOrder == InitOrder /\ [][NextOrder]_vars

\* C30: an issue request for service S whose key is not S's api_key is
\* answered with an authentication error, and two such requests with the
\* same key get the same answer whatever their aud and sub are.
C30_AuthenticateBeforeValidate ==
    \A h, g \in Handlers :
        (/\ hs[h].pc = "done" /\ hs[h].op = "issue"
         /\ hs[g].pc = "done" /\ hs[g].op = "issue"
         /\ hs[h].id = hs[g].id /\ hs[h].key = hs[g].key
         /\ hs[h].key # StoredKey(hs[h].id))
        => /\ hs[h].result = hs[g].result
           /\ hs[h].result \in {"NO_API_KEY", "INVALID_ENTITY_KEY"}

\* ------------- SpecCompose: caller claims against the context of the link
\* Link contexts: none, one that meets a caller claim, one with the key exp.
ComposeContexts == {NoDict, CtxRole,
                    [k \in {"exp", "role"} |-> IF k = "exp" THEN 0 ELSE "reader"]}

InitCompose == \E c \in ComposeContexts : InitStore(<<ServiceLink("A", "B", c)>>)

NextCompose ==
    \E h \in Handlers :
        \/ /\ h \in {"h1", "h3"}
           /\ \E c \in ClaimInputs : issue_start(h, "A", "B", "W1", c, KeyOf("A"))
        \/ LoadKeys(h)
        \/ rl_get_system_version(h)
        \/ rl_first_check(h)
        \/ IssueToken(h)
        \/ Return(h)

SpecCompose == InitCompose /\ [][NextCompose]_vars

\* The context of the stored link A -> B of W1.
StoredContext == StoredLinks("W1")[1].context

\* The caller's part of a minted payload: no reserved key is nested, the
\* caller's keys reach the top level only through the context, and without a
\* context key `claims` the nested field holds the remaining caller claims.
CallerClaimsNested(h) ==
    LET pl == hs[h].token.payload
        f == Restrict(hs[h].claims, (DOMAIN hs[h].claims) \ keys_to_exclude)
    IN  /\ "claims" \in DOMAIN pl => (DOMAIN pl["claims"]) \cap keys_to_exclude = {}
        /\ \A k \in DOMAIN hs[h].claims :
              k \in DOMAIN pl => k \in keys_to_exclude \cup DOMAIN StoredContext
        /\ (f # NoDict /\ "claims" \notin DOMAIN StoredContext) => pl["claims"] = f
        /\ (f = NoDict /\ "claims" \notin DOMAIN StoredContext) => "claims" \notin DOMAIN pl

C32_UnknownKidReloadsOnce ==
    [][\A h \in Handlers :
        LET p == ProcOf(h)
        IN  /\ (hs[h].pc = "idle" /\ hs'[h].op = "verify"
                  /\ hs'[h].token.kid \notin RSA_KEYS[p])
               => (hs'[h].pc = "lk_ping_call" /\ hs'[h].ret = "ver_reloaded")
            /\ (hs[h].op = "verify" /\ hs[h].pc = "lk_get_call" /\ hs'[h].pc = "lk_get_ret"
                  /\ hs'[h].ok)
               => hs'[h].blob = rsaBlob
            /\ (hs[h].op = "verify" /\ hs[h].pc = "lk_get_ret" /\ hs'[h].pc = "ver_reloaded")
               => RSA_KEYS'[p] = Eval(hs[h].blob)
            /\ (hs[h].pc = "ver_reloaded" /\ hs'[h].pc # "ver_reloaded")
               => /\ hs'[h].pc = "done"
                  /\ hs'[h].result = IF hs[h].token.kid \in RSA_KEYS[p]
                                     THEN Decode(hs[h].token) ELSE "UNKNOWN_KID"]_vars

\* The reload has brought in the kid another process rotated to.
C32_Witness ==
    \E h \in Handlers :
        /\ hs[h].pc = "ver_reloaded"
        /\ hs[h].token.kid \in RSA_KEYS[ProcOf(h)]
        /\ hs[h].token.kid \in Eval(rsaBlob)

\* ------------------------------ link identity (checked under SpecLinks)
\* A list holds a link of the pair of l, whatever the contexts.
PairIn(l, s) == \E i \in 1..Len(s) : s[i].issuer_id = l.issuer_id /\ s[i].audience_id = l.audience_id

\* C33: past the version checks, link-service for a pair the workspace holds
\* answers ALREADY_LINKED and changes neither the store nor the caches,
\* whatever the contexts; unlink-service for an absent pair answers
\* NOT_LINKED likewise; unlink-service for a pair that is held takes the
\* link of the pair out, whatever the contexts, and the workspace it stores
\* has no link of the pair.
C33_LinkIdentityIgnoresContext ==
    [][\A h \in Handlers :
        LET o == Obj(h)
            l == hs[h].link
            a == hs[h].action
        IN  /\ (hs[h].op = "link_service" /\ hs[h].pc = "lnk_get_ret" /\ hs'[h].pc # "lnk_get_ret"
                  /\ (hs[h].cur = Absent \/ hs[h].cur.version = o.version))
               => /\ (a = "link-service" /\ PairIn(l, o.services))
                     => /\ hs'[h].pc = "done" /\ hs'[h].result = "ALREADY_LINKED"
                        /\ UNCHANGED <<data, verKey, sysVer, cache, cacheVer>>
                  /\ (a = "unlink-service" /\ ~PairIn(l, o.services))
                     => /\ hs'[h].pc = "done" /\ hs'[h].result = "NOT_LINKED"
                        /\ UNCHANGED <<data, verKey, sysVer, cache, cacheVer>>
                  /\ (a = "unlink-service" /\ PairIn(l, o.services))
                     => /\ hs'[h].pc = "upd_save_call"
                        /\ ~PairIn(l, hs'[h].pend.services)
                        /\ Len(hs'[h].pend.services) = Len(o.services) - 1
            /\ (hs[h].op = "link_service" /\ a = "unlink-service"
                  /\ hs[h].pc = "upd_save_call" /\ hs'[h].pc # "upd_save_call" /\ hs'[h].ok)
               => ~PairIn(l, StoredLinks(hs[h].id)')]_vars

\* A link stored with a context has been removed by an unlink-service that
\* carried none, and a link-service with another context than the stored
\* one was answered ALREADY_LINKED.
C33_Witness ==
    \E h, g \in Handlers :
        /\ hs[h].pc = "done" /\ hs[h].op = "link_service" /\ hs[h].action = "link-service"
        /\ hs[h].result = "OK" /\ hs[h].link.context # NoDict
        /\ hs[g].pc = "done" /\ hs[g].op = "link_service" /\ hs[g].action = "unlink-service"
        /\ hs[g].result = "OK" /\ hs[g].link.context = NoDict
        /\ StoredLinks("W1") = <<>>

\* ------------- SpecFrame: updates of info and content in two processes
ContentUrl == [k \in {"url"} |-> 1]
InitFrame == InitStore(<<LinkAB>>)

NextFrame ==
    \E h \in Handlers :
        \/ /\ h = "h1"
           /\ update_start(h, "update_info", "service", "A", InfoName, NoVer, <<"admin", 1>>)
        \/ /\ h = "h2"
           /\ update_start(h, "update_content", "workspace", "W1", ContentUrl, NoVer, <<"admin", 1>>)
        \/ /\ h = "h3"
           /\ update_start(h, "update_content", "service", "A", ContentUrl, NoVer, <<"admin", 1>>)
        \/ ReloadUncontended(h)
        \/ update_got(h)
        \/ update_get_item(h)
        \/ update_check(h)
        \/ update_save_item(h)
        \/ update_finish(h)
        \/ AfterCommit(h)
        \/ Return(h)

SpecFrame == InitFrame /\ [][NextFrame]_vars

\* C34: the write of a successful UpdateInfo (UpdateContent) replaces, in the
\* stored entity, info (content) and the version and nothing else: id, name,
\* api_key, the other field and a workspace's links are those stored before
\* the write, and no other stored entity changes.
C34_UpdateFrame ==
    [][\A h \in Handlers :
        (/\ hs[h].op \in {"update_info", "update_content"}
         /\ hs[h].pc = "upd_save_call" /\ hs'[h].pc # "upd_save_call" /\ hs'[h].ok)
        => LET t == hs[h].t
               id == hs[h].id
               old == Decrypt(data[t][id])
               new == Decrypt(data'[t][id])
           IN  /\ data[t][id] # NoBlob
               /\ new = IF hs[h].op = "update_info"
                        THEN [old EXCEPT !.info = hs[h].body, !.version = hs[h].pend.version]
                        ELSE [old EXCEPT !.content = hs[h].body, !.version = hs[h].pend.version]
               /\ \A t2 \in Types : \A id2 \in Ids(t2) :
                     (t2 # t \/ id2 # id) => data'[t2][id2] = data[t2][id2]]_vars

\* ------------------ SpecRekey: the old key of a service after its rekey
InitRekey == InitStore(<<LinkAB>>)

\* The rekey of service A by h1 has returned successfully.
RekeyReturned == hs["h1"].pc = "done" /\ hs["h1"].op = "rekey" /\ hs["h1"].result = "OK"

\* h1 rekeys A; p2 updates the info of service B at any time; requests with
\* A's previous key or A's new key arrive after the rekey has returned: a
\* read of A in the rekeying process, a token issue in the other process.
NextRekey ==
    \E h \in Handlers :
        \/ /\ h = "h1"
           /\ update_start(h, "rekey", "service", "A", NoDict, NoVer, <<"admin", 1>>)
        \/ /\ h = "h3"
           /\ update_start(h, "update_info", "service", "B", InfoName, NoVer, <<"admin", 1>>)
        \/ /\ h = "h2"
           /\ RekeyReturned
           /\ \E key \in {KeyOf("A"), StoredKey("A")} : get_start(h, "service", "A", key)
        \/ /\ h = "h3"
           /\ RekeyReturned
           /\ \E key \in {KeyOf("A"), StoredKey("A")} : issue_start(h, "A", "B", "W1", NoDict, key)
        \/ ReloadUncontended(h)
        \/ update_got(h)
        \/ update_get_item(h)
        \/ update_check(h)
        \/ update_save_item(h)
        \/ update_finish(h)
        \/ AfterCommit(h)
        \/ get_got(h)
        \/ LoadKeys(h)
        \/ IssueToken(h)
        \/ /\ h # "h1"
           /\ Return(h)

SpecRekey == InitRekey /\ [][NextRekey]_vars

\* C35: a token issue or a read of service A that arrives after the rekey of
\* A has returned is rejected with INVALID_ENTITY_KEY when it presents A's
\* previous api_key, in either process, and is not rejected for its key when
\* it presents the new one.
C35_RekeyRevokesOldKey ==
    \A h \in Handlers :
        (hs[h].pc = "done" /\ hs[h].op \in {"issue", "get"} /\ hs[h].id = "A" /\ RekeyReturned)
        => /\ hs[h].key = KeyOf("A") => hs[h].result = "INVALID_ENTITY_KEY"
           /\ hs[h].key = StoredKey("A") => hs[h].result = "OK"

\* ------------------ SpecSystem: rotate-keys and diagnostics in two processes
InitSystem == InitStore(<<>>)

NextSystem ==
    \E h \in Handlers :
        \/ /\ h \in {"h1", "h3"}
           /\ rotate_start(h, <<"admin", 1>>)
        \/ /\ h \in {"h2", "h3"}
           /\ diagnostics_start(h)
        \/ rotate_is_available(h)
        \/ rotate_after_ping(h)
        \/ ring_set_raw(h)
        \/ rotate_finish(h)
        \/ diagnostics_is_available(h)
        \/ diagnostics_finish(h)
        \/ Return(h)

SpecSystem == InitSystem /\ [][NextSystem]_vars

\* C36: the `current` of a rotate-keys response is the new kid it returns,
\* and the key count and current kid of a diagnostics response are the size
\* and the current kid of the process's ring when the response is made.
C36_SystemReportsLiveRing ==
    [][\A h \in Handlers :
        (hs[h].pc # "done" /\ hs'[h].pc = "done" /\ hs'[h].result = "OK")
        => /\ hs'[h].op = "rotate" => hs'[h].current = hs'[h].kid
           /\ hs'[h].op = "diagnostics"
              => /\ hs'[h].n = Cardinality(RSA_KEYS[ProcOf(h)])
                 /\ hs'[h].current = CURRENT_KID[ProcOf(h)]]_vars

\* -------------- SpecDiscovery: discovery over two workspaces that change
LinkBA == ServiceLink("B", "A", CtxRole)
LinkAC == ServiceLink("A", "C", NoDict)
InitDiscovery == InitStore(<<LinkAB, LinkBA>>)

\* h1 asks for the discovery of A, or creates service C; h2 unlinks (A,B) from
\* W1; the other process creates W2 with links of its own.
NextDiscovery ==
    \E h \in Handlers :
        \/ /\ h = "h1"
           /\ \/ discovery_start(h, "A", KeyOf("A"))
              \/ create_start(h, "service", "C", NoKey, <<>>, <<"admin", 1>>)
        \/ /\ h = "h2"
           /\ link_start(h, "W1", "unlink-service", LinkAB, NoVer, <<"admin", 1>>)
        \/ /\ h = "h3"
           /\ \E ls \in {<<LinkAB>>, <<LinkAC, LinkAB>>, <<LinkBA>>} :
                 create_start(h, "workspace", "W2", NoKey, ls, <<"admin", 1>>)
        \/ ReloadUncontended(h)
        \/ discovery_authenticate(h)
        \/ discovery_scan(h)
        \/ discovery_lookup(h)
        \/ create_exists(h)
        \/ create_check(h)
        \/ LinkService(h)
        \/ AfterCommit(h)
        \/ Return(h)

SpecDiscovery == InitDiscovery /\ [][NextDiscovery]_vars

\* The cached workspaces of process p that hold a link (sid, a).
Holding(p, sid, a) ==
    {w \in Workspaces : PairIn(ServiceLink(sid, a, NoDict), cache[p]["workspace"][w].services)}

\* C37: the groups the discovery of S builds from the cached workspaces are
\* one per distinct audience a of a cached link (S, a), the workspaces of
\* a's group are exactly those that hold a link (S, a), each listed once, and
\* the response carries these groups.
C37_DiscoveryExact ==
    [][\A h \in Handlers :
        LET p == ProcOf(h)
            g == hs'[h].groups
        IN  /\ (hs[h].pc = "dsc_scan" /\ hs'[h].pc # "dsc_scan" /\ hs'[h].result # "NOT_FOUND")
               => /\ \A i, j \in 1..Len(g) : g[i].service = g[j].service => i = j
                  /\ {g[i].service : i \in 1..Len(g)} = {a \in Services : Holding(p, hs[h].id, a) # {}}
                  /\ \A i \in 1..Len(g) :
                        /\ {g[i].workspaces[k] : k \in 1..Len(g[i].workspaces)}
                              = Holding(p, hs[h].id, g[i].service)
                        /\ Len(g[i].workspaces) = Cardinality(Holding(p, hs[h].id, g[i].service))
            /\ (hs[h].op = "discovery" /\ hs[h].pc \in {"dsc_scan", "dsc_lookup"}
                  /\ hs'[h].pc = "done" /\ hs'[h].result = "OK")
               => (hs'[h].groups = hs[h].groups \/ hs[h].pc = "dsc_scan")]_vars

\* A discovery of A has answered with two groups, one of them with both workspaces.
C37_Witness ==
    \E h \in Handlers :
        /\ hs[h].pc = "done" /\ hs[h].op = "discovery" /\ hs[h].result = "OK"
        /\ Len(hs[h].groups) = 2
        /\ \E i \in 1..2 : Len(hs[h].groups[i].workspaces) = 2

\* ---------------- SpecCreateLinks: workspaces created with links in the body
CreateLinkInputs == {<<>>, <<LinkAB>>, <<ServiceLink("A", "A", NoDict)>>,
                     <<LinkAB, ServiceLink("A", "B", CtxRole)>>, <<LinkAC>>}
InitCreateLinks == InitStore(<<LinkAB>>)

NextCreateLinks ==
    \E h \in Handlers :
        \/ /\ h \in {"h1", "h3"}
           /\ \E ls \in CreateLinkInputs : create_start(h, "workspace", "W2", NoKey, ls, <<"admin", 1>>)
        \/ create_exists(h)
        \/ create_check(h)
        \/ update_save_item(h)
        \/ update_finish(h)
        \/ AfterCommit(h)
        \/ Return(h)

SpecCreateLinks == InitCreateLinks /\ [][NextCreateLinks]_vars

\* C38: the workspace a Create stores has no self-link, no two links of one
\* pair and no link that names a service which is not stored.
C38_CreatedLinksWellFormed ==
    [][\A h \in Handlers :
        (hs[h].op = "create" /\ hs[h].t = "workspace"
         /\ hs[h].pc = "upd_save_call" /\ hs'[h].pc # "upd_save_call" /\ hs'[h].ok)
        => LET s == StoredLinks(hs[h].id)'
           IN  /\ WellFormedLinks(s)
               /\ \A i \in 1..Len(s) :
                     /\ data["service"][s[i].issuer_id] # NoBlob
                     /\ data["service"][s[i].audience_id] # NoBlob]_vars

\* ---------------- SpecReject: mutations that are refused, in two processes
InitReject == InitStore(<<LinkAB>>)

\* h1 rekeys service A with an If-Match or updates the missing C; h2 changes
\* the links of W1; the other process updates A or deletes A or a workspace.
NextReject ==
    \E h \in Handlers :
        \/ /\ h = "h1"
           /\ \/ update_start(h, "rekey", "service", "A", NoDict, 1, <<"admin", 1>>)
              \/ update_start(h, "update_info", "service", "C", InfoName, NoVer, <<"admin", 1>>)
        \/ /\ h = "h2"
           /\ \/ \E l \in {LinkAB, ServiceLink("A", "A", NoDict)} :
                    link_start(h, "W1", "link-service", l, NoVer, <<"admin", 1>>)
              \/ link_start(h, "W1", "unlink-service", LinkBA, NoVer, <<"admin", 1>>)
        \/ /\ h = "h3"
           /\ \/ update_start(h, "update_content", "service", "A", ContentUrl, NoVer, <<"admin", 1>>)
              \/ delete_service_start(h, "A", <<"admin", 1>>)
              \/ \E w \in Workspaces : delete_workspace_start(h, w, <<"admin", 1>>)
        \/ ReloadUncontended(h)
        \/ update_got(h)
        \/ update_get_item(h)
        \/ update_check(h)
        \/ LinkService(h)
        \/ DeleteService(h)
        \/ DeleteWorkspace(h)
        \/ AfterCommit(h)
        \/ Return(h)

SpecReject == InitReject /\ [][NextReject]_vars

RejectOps == UpdateOps \cup {"link_service", "delete_service", "delete_workspace"}
Rejections == {"PRECONDITION_FAILED", "CONFLICT", "NOT_FOUND", "BAD_LINK", "ALREADY_LINKED", "NOT_LINKED"}
\* Where a handler decides between refusing and going on.
DecisionLabels == {"upd_got", "upd_get_ret", "lnk_got_ws", "lnk_got_svc", "lnk_get_ret",
                   "dsv_got", "dsv_get_ret", "dws_got", "dws_get_ret"}
\* Where a handler waits for a read of the backend it has sent.
ReadLabels == {"rl_stamp1_call", "rl_stamp1_ret", "rl_stamp2_call", "rl_stamp2_ret",
               "rl_scan_call", "rl_fetch_call", "upd_get_call", "lnk_get_call",
               "dsv_get_call", "dws_get_call"}

InitRetry == InitStore(<<LinkAB>>)

\* h1 is the only writer: it updates the info of service A or rekeys it, and
\* may ask again; the other process reads A.
NextRetry ==
    \/ Outage
    \/ Recover
    \/ \E h \in Handlers :
        \/ /\ h = "h1"
           /\ \E op \in {"update_info", "rekey"} :
                 update_start(h, op, "service", "A", IF op = "rekey" THEN NoDict ELSE InfoName,
                              NoVer, <<"admin", 1>>)
        \/ /\ h = "h3"
           /\ get_start(h, "service", "A", KeyOf("A"))
        \/ get_got(h)
        \/ ReloadUncontended(h)
        \/ update_got(h)
        \/ update_get_item(h)
        \/ update_check(h)
        \/ update_save_item(h)
        \/ update_finish(h)
        \/ AfterCommit(h)
        \/ Return(h)

SpecRetry == InitRetry /\ [][NextRetry]_vars

\* C40: after a mutation whose pipeline failed with a backend error, the
\* cached entity of the process equals the stored one (fields, api_key and
\* version), and no request of the only writer is refused with CONFLICT.
C40_FailedWriteKeepsCache ==
    \A h \in Handlers :
        (hs[h].pc = "done" /\ hs[h].op \in UpdateOps)
        => /\ hs[h].result = "BACKEND_ERROR"
              => cache[ProcOf(h)][hs[h].t][hs[h].id] = Decrypt(data[hs[h].t][hs[h].id])
           /\ hs[h].result # "CONFLICT"

=============================================================================
